---- MODULE Spec2Model ----
(***************************************************************************)
(* Bracket progression engine of the Kendo play recorder (App component): *)
(* the match graph, placePlayerInMatch, submitScore, handleWalkover and    *)
(* the persisted tournament list, together with the MatchCard conditions   *)
(* (isReady, isBye) that decide which buttons the user can press.          *)
(*                                                                         *)
(* Encoding of the TypeScript values:                                      *)
(*   - a player id `p${k}` is the integer k, a match id is its integer;    *)
(*     null is 0 in both cases (both are falsy in the source's tests);     *)
(*   - a slot selector is "red", "white" or Auto (null in the source);     *)
(*   - a null result is the record NoResult (winnerId = Null).             *)
(* The field lastUpdated (Date.now()) is written and never read by the     *)
(* engine; it is left out of the snapshots.  The details text of the score *)
(* form is copied into the result and never inspected; the form keeps the  *)
(* text it starts with.                                                    *)
(***************************************************************************)
EXTENDS Integers, Sequences, FiniteSets, TLC

\* ------------------------------------------------------------------ bounds
NumMatches == 3
MaxScore == 1
\* number of direct engine calls explored by EngineSpec
MaxCalls == 2

\* --------------------------------------------------------------- constants
Null == 0
Auto == "auto"
Slots == {"red", "white"}
SlotSel == {"red", "white", Auto}
MatchIds == 1..NumMatches
\* ids a caller may name: null, the existing ids and one id that does not exist
CallIds == 0..(NumMatches + 1)
PlayerIds == {1, 2, 3, 4}
Scores == 0..MaxScore
Details == {""}
WalkoverDetails == "Walkover"

NoResult == [winnerId |-> Null, redScore |-> 0, whiteScore |-> 0, details |-> "null"]

VARIABLES
  editorData,     \* the tournament being edited (TournamentData)
  tournaments,    \* the persisted list of tournament snapshots
  activeMatchId,  \* match whose score modal is open, or Null
  scoreForm,      \* the score modal's form
  last,           \* record of the last engine call: its arguments, the state it ran in, its outcome
  calls,          \* number of direct engine calls made (EngineSpec)
  setupStep,      \* the page shown: 3 the match list, 4 the rankings
  rankingLimit,   \* the "Top n" choice of the rankings page
  rankings,       \* the list renderRankings shows, <<>> while the page is not shown
  bracketTree     \* what BracketTree computed: its root, matchDepthMap and levels

\* what the pages derive from the tournament; the engine does not touch it
viewVars == <<setupStep, rankingLimit, rankings, bracketTree>>

vars == <<editorData, tournaments, activeMatchId, scoreForm, last, calls, viewVars>>

matches == editorData.matches

\* ----------------------------------------------------------------- helpers
\* Array.prototype.find on ids: the first element with that id, if any
hasMatch(ms, id) == \E i \in DOMAIN ms : ms[i].id = id

findMatch(ms, id) == ms[CHOOSE i \in DOMAIN ms : ms[i].id = id /\ \A j \in DOMAIN ms : ms[j].id = id => i <= j]

\* the player in a slot of a match
slotOf(m, s) == IF s = "red" THEN m.redPlayerId ELSE m.whitePlayerId

\* placePlayerInMatch that rebuilds the target as a fresh match: the result is dropped
placePlayerInMatch_ResetsResult(ms, targetMatchId, playerId, targetSlot, sourceParticipants) ==
  [i \in DOMAIN ms |->
     LET targetMatch == [ms[i] EXCEPT !.result = [winnerId |-> Null, redScore |-> 0, whiteScore |-> 0, details |-> "null"]] IN
     IF ms[i].id = targetMatchId
     THEN IF targetSlot = "red" THEN [targetMatch EXCEPT !.redPlayerId = playerId]
          ELSE IF targetSlot = "white" THEN [targetMatch EXCEPT !.whitePlayerId = playerId]
          ELSE IF targetMatch.redPlayerId # Null /\ targetMatch.redPlayerId \in sourceParticipants
               THEN [targetMatch EXCEPT !.redPlayerId = playerId]
          ELSE IF targetMatch.whitePlayerId # Null /\ targetMatch.whitePlayerId \in sourceParticipants
               THEN [targetMatch EXCEPT !.whitePlayerId = playerId]
          ELSE IF targetMatch.redPlayerId = Null THEN [targetMatch EXCEPT !.redPlayerId = playerId]
          ELSE IF targetMatch.whitePlayerId = Null THEN [targetMatch EXCEPT !.whitePlayerId = playerId]
          ELSE targetMatch
     ELSE ms[i]]

\* placePlayerInMatch whose explicit assignment only fills an empty slot
placePlayerInMatch_ExplicitKeepsOccupant(ms, targetMatchId, playerId, targetSlot, sourceParticipants) ==
  [i \in DOMAIN ms |->
     LET targetMatch == ms[i] IN
     IF targetMatch.id = targetMatchId
     THEN IF targetSlot = "red"
          THEN (IF targetMatch.redPlayerId = Null THEN [targetMatch EXCEPT !.redPlayerId = playerId] ELSE targetMatch)
          ELSE IF targetSlot = "white"
          THEN (IF targetMatch.whitePlayerId = Null THEN [targetMatch EXCEPT !.whitePlayerId = playerId] ELSE targetMatch)
          ELSE IF targetMatch.redPlayerId # Null /\ targetMatch.redPlayerId \in sourceParticipants
               THEN [targetMatch EXCEPT !.redPlayerId = playerId]
          ELSE IF targetMatch.whitePlayerId # Null /\ targetMatch.whitePlayerId \in sourceParticipants
               THEN [targetMatch EXCEPT !.whitePlayerId = playerId]
          ELSE IF targetMatch.redPlayerId = Null THEN [targetMatch EXCEPT !.redPlayerId = playerId]
          ELSE IF targetMatch.whitePlayerId = Null THEN [targetMatch EXCEPT !.whitePlayerId = playerId]
          ELSE targetMatch
     ELSE targetMatch]
\* placePlayerInMatch without the correction step: Auto only fills an empty slot
placePlayerInMatch_NoCorrection(ms, targetMatchId, playerId, targetSlot, sourceParticipants) ==
  [i \in DOMAIN ms |->
     LET targetMatch == ms[i] IN
     IF targetMatch.id = targetMatchId
     THEN IF targetSlot = "red" THEN [targetMatch EXCEPT !.redPlayerId = playerId]
          ELSE IF targetSlot = "white" THEN [targetMatch EXCEPT !.whitePlayerId = playerId]
          ELSE IF targetMatch.redPlayerId = Null THEN [targetMatch EXCEPT !.redPlayerId = playerId]
          ELSE IF targetMatch.whitePlayerId = Null THEN [targetMatch EXCEPT !.whitePlayerId = playerId]
          ELSE targetMatch
     ELSE targetMatch]
\* placePlayerInMatch whose Auto fills an empty slot before it looks for a
\* participant of the source match
placePlayerInMatch_FillBeforeCorrection(ms, targetMatchId, playerId, targetSlot, sourceParticipants) ==
  [i \in DOMAIN ms |->
     LET targetMatch == ms[i] IN
     IF targetMatch.id = targetMatchId
     THEN IF targetSlot = "red" THEN [targetMatch EXCEPT !.redPlayerId = playerId]
          ELSE IF targetSlot = "white" THEN [targetMatch EXCEPT !.whitePlayerId = playerId]
          ELSE IF targetMatch.redPlayerId = Null THEN [targetMatch EXCEPT !.redPlayerId = playerId]
          ELSE IF targetMatch.whitePlayerId = Null THEN [targetMatch EXCEPT !.whitePlayerId = playerId]
          ELSE IF targetMatch.redPlayerId # Null /\ targetMatch.redPlayerId \in sourceParticipants
               THEN [targetMatch EXCEPT !.redPlayerId = playerId]
          ELSE IF targetMatch.whitePlayerId # Null /\ targetMatch.whitePlayerId \in sourceParticipants
               THEN [targetMatch EXCEPT !.whitePlayerId = playerId]
          ELSE targetMatch
     ELSE targetMatch]
\* placePlayerInMatch whose Auto, finding no participant of the source match,
\* always writes Red
placePlayerInMatch_AutoAlwaysRed(ms, targetMatchId, playerId, targetSlot, sourceParticipants) ==
  [i \in DOMAIN ms |->
     LET targetMatch == ms[i] IN
     IF targetMatch.id = targetMatchId
     THEN IF targetSlot = "red" THEN [targetMatch EXCEPT !.redPlayerId = playerId]
          ELSE IF targetSlot = "white" THEN [targetMatch EXCEPT !.whitePlayerId = playerId]
          ELSE IF targetMatch.redPlayerId # Null /\ targetMatch.redPlayerId \in sourceParticipants
               THEN [targetMatch EXCEPT !.redPlayerId = playerId]
          ELSE IF targetMatch.whitePlayerId # Null /\ targetMatch.whitePlayerId \in sourceParticipants
               THEN [targetMatch EXCEPT !.whitePlayerId = playerId]
          ELSE [targetMatch EXCEPT !.redPlayerId = playerId]
     ELSE targetMatch]
\* placePlayerInMatch whose Auto, finding no slot to use, displaces White
placePlayerInMatch_FullDisplacesWhite(ms, targetMatchId, playerId, targetSlot, sourceParticipants) ==
  [i \in DOMAIN ms |->
     LET targetMatch == ms[i] IN
     IF targetMatch.id = targetMatchId
     THEN IF targetSlot = "red" THEN [targetMatch EXCEPT !.redPlayerId = playerId]
          ELSE IF targetSlot = "white" THEN [targetMatch EXCEPT !.whitePlayerId = playerId]
          ELSE IF targetMatch.redPlayerId # Null /\ targetMatch.redPlayerId \in sourceParticipants
               THEN [targetMatch EXCEPT !.redPlayerId = playerId]
          ELSE IF targetMatch.whitePlayerId # Null /\ targetMatch.whitePlayerId \in sourceParticipants
               THEN [targetMatch EXCEPT !.whitePlayerId = playerId]
          ELSE IF targetMatch.redPlayerId = Null THEN [targetMatch EXCEPT !.redPlayerId = playerId]
          ELSE [targetMatch EXCEPT !.whitePlayerId = playerId]
     ELSE targetMatch]
\* placePlayerInMatch whose explicit assignment also takes the player out of
\* the other slot
placePlayerInMatch_MovesPlayer(ms, targetMatchId, playerId, targetSlot, sourceParticipants) ==
  [i \in DOMAIN ms |->
     LET targetMatch == ms[i] IN
     IF targetMatch.id = targetMatchId
     THEN IF targetSlot = "red"
          THEN [targetMatch EXCEPT !.redPlayerId = playerId,
                                   !.whitePlayerId = IF @ = playerId THEN Null ELSE @]
          ELSE IF targetSlot = "white"
          THEN [targetMatch EXCEPT !.whitePlayerId = playerId,
                                   !.redPlayerId = IF @ = playerId THEN Null ELSE @]
          ELSE IF targetMatch.redPlayerId # Null /\ targetMatch.redPlayerId \in sourceParticipants
               THEN [targetMatch EXCEPT !.redPlayerId = playerId]
          ELSE IF targetMatch.whitePlayerId # Null /\ targetMatch.whitePlayerId \in sourceParticipants
               THEN [targetMatch EXCEPT !.whitePlayerId = playerId]
          ELSE IF targetMatch.redPlayerId = Null THEN [targetMatch EXCEPT !.redPlayerId = playerId]
          ELSE IF targetMatch.whitePlayerId = Null THEN [targetMatch EXCEPT !.whitePlayerId = playerId]
          ELSE targetMatch
     ELSE targetMatch]

\* ------------------------------------------------------ placement (App.tsx)
\* placePlayerInMatch: explicit slot overwrites; Auto first overwrites a slot
\* holding a participant of the source match, then fills the first empty slot,
\* and otherwise leaves the match as it is.
placePlayerInMatch(ms, targetMatchId, playerId, targetSlot, sourceParticipants) ==
  [i \in DOMAIN ms |->
     LET targetMatch == ms[i] IN
     IF targetMatch.id = targetMatchId
     THEN IF targetSlot = "red" THEN [targetMatch EXCEPT !.redPlayerId = playerId]
          ELSE IF targetSlot = "white" THEN [targetMatch EXCEPT !.whitePlayerId = playerId]
          ELSE IF targetMatch.redPlayerId # Null /\ targetMatch.redPlayerId \in sourceParticipants
               THEN [targetMatch EXCEPT !.redPlayerId = playerId]
          ELSE IF targetMatch.whitePlayerId # Null /\ targetMatch.whitePlayerId \in sourceParticipants
               THEN [targetMatch EXCEPT !.whitePlayerId = playerId]
          ELSE IF targetMatch.redPlayerId = Null THEN [targetMatch EXCEPT !.redPlayerId = playerId]
          ELSE IF targetMatch.whitePlayerId = Null THEN [targetMatch EXCEPT !.whitePlayerId = playerId]
          ELSE targetMatch
     ELSE targetMatch]

\* matches.map(m => m.id === matchId ? { ...m, result } : m)
setResult(ms, matchId, result) ==
  [i \in DOMAIN ms |-> IF ms[i].id = matchId THEN [ms[i] EXCEPT !.result = result] ELSE ms[i]]

\* ------------------------------------------------------------- persistence
\* persistTournament that always appends the snapshot
persistTournament_AlwaysPush(ts, data) == Append(ts, data)

\* persistTournament: replace the stored snapshot with the same id, or append
persistTournament(ts, data) ==
  LET idx == {i \in DOMAIN ts : ts[i].id = data.id} IN
  IF idx # {}
  THEN LET existingIdx == CHOOSE i \in idx : \A j \in idx : i <= j
       IN [ts EXCEPT ![existingIdx] = data]
  ELSE Append(ts, data)
\* submitWinnerId that takes the Red occupant whenever the scores differ
submitWinnerId_RedUnlessTie(match, form) ==
  IF form.red # form.white THEN match.redPlayerId ELSE Null

\* ------------------------------------------------------------- submitScore
\* winner and loser of a scored match; Null when the scores are tied
submitWinnerId(match, form) ==
  IF form.red > form.white THEN match.redPlayerId
  ELSE IF form.white > form.red THEN match.whitePlayerId
  ELSE Null

submitLoserId(match, form) ==
  IF form.red > form.white THEN match.whitePlayerId
  ELSE IF form.white > form.red THEN match.redPlayerId
  ELSE Null

submitResult(match, form) ==
  [winnerId |-> submitWinnerId(match, form), redScore |-> form.red,
   whiteScore |-> form.white, details |-> form.details]
\* submitOutcome without the tie alert: equal scores pass validation
submitOutcome_TieAccepted(ms, id, form) ==
  IF id = Null \/ ~hasMatch(ms, id) THEN "ignored"
  ELSE IF findMatch(ms, id).redPlayerId = Null \/ findMatch(ms, id).whitePlayerId = Null THEN "ignored"
  ELSE "ok"
\* submitOutcome without the check that both slots hold a player
submitOutcome_NoSlotCheck(ms, id, form) ==
  IF id = Null \/ ~hasMatch(ms, id) THEN "ignored"
  ELSE IF form.red = form.white THEN "tied"
  ELSE "ok"

\* the validation of submitScore: "ignored" for the silent returns, "tied" for
\* the alert, "ok" when the result is going to be written
submitOutcome(ms, id, form) ==
  IF id = Null \/ ~hasMatch(ms, id) THEN "ignored"
  ELSE IF findMatch(ms, id).redPlayerId = Null \/ findMatch(ms, id).whitePlayerId = Null THEN "ignored"
  ELSE IF form.red = form.white THEN "tied"
  ELSE "ok"
\* submitMatches placing the loser with the winner edge's slot selector
submitMatches_LoserUsesWinnerSlot(ms, id, form) ==
  LET match == findMatch(ms, id)
      winnerId == submitWinnerId(match, form)
      loserId == submitLoserId(match, form)
      sourceParticipants == {match.redPlayerId, match.whitePlayerId}
      m1 == setResult(ms, id, submitResult(match, form))
      m2 == IF match.winnerToMatchId # Null
            THEN placePlayerInMatch(m1, match.winnerToMatchId, winnerId, match.winnerToSlot, sourceParticipants)
            ELSE m1
  IN IF match.loserToMatchId # Null
     THEN placePlayerInMatch(m2, match.loserToMatchId, loserId, match.winnerToSlot, sourceParticipants)
     ELSE m2
\* submitMatches passing only the placed player as sourceParticipants
submitMatches_PlacedPlayerOnly(ms, id, form) ==
  LET match == findMatch(ms, id)
      winnerId == submitWinnerId(match, form)
      loserId == submitLoserId(match, form)
      m1 == setResult(ms, id, submitResult(match, form))
      m2 == IF match.winnerToMatchId # Null
            THEN placePlayerInMatch(m1, match.winnerToMatchId, winnerId, match.winnerToSlot, {winnerId})
            ELSE m1
  IN IF match.loserToMatchId # Null
     THEN placePlayerInMatch(m2, match.loserToMatchId, loserId, match.loserToSlot, {loserId})
     ELSE m2

\* the match list submitScore builds once validation has passed
submitMatches(ms, id, form) ==
  LET match == findMatch(ms, id)
      winnerId == submitWinnerId(match, form)
      loserId == submitLoserId(match, form)
      sourceParticipants == {match.redPlayerId, match.whitePlayerId}
      m1 == setResult(ms, id, submitResult(match, form))
      m2 == IF match.winnerToMatchId # Null
            THEN placePlayerInMatch(m1, match.winnerToMatchId, winnerId, match.winnerToSlot, sourceParticipants)
            ELSE m1
  IN IF match.loserToMatchId # Null
     THEN placePlayerInMatch(m2, match.loserToMatchId, loserId, match.loserToSlot, sourceParticipants)
     ELSE m2
\* walkoverWinnerId that only looks at the Red slot
walkoverWinnerId_RedOnly(match) == match.redPlayerId

\* ---------------------------------------------------------- handleWalkover
walkoverWinnerId(match) ==
  IF match.redPlayerId # Null THEN match.redPlayerId ELSE match.whitePlayerId

walkoverResult(match) ==
  [winnerId |-> walkoverWinnerId(match), redScore |-> 0, whiteScore |-> 0,
   details |-> WalkoverDetails]
\* walkoverOutcome without the check that a player is present
walkoverOutcome_NoPlayerCheck(ms, matchId) ==
  IF ~hasMatch(ms, matchId) THEN "ignored" ELSE "ok"

walkoverOutcome(ms, matchId) ==
  IF ~hasMatch(ms, matchId) THEN "ignored"
  ELSE IF walkoverWinnerId(findMatch(ms, matchId)) = Null THEN "noPlayer"
  ELSE "ok"
\* walkoverMatches that also routes the (absent) opponent along the loser edge
walkoverMatches_RoutesLoser(ms, matchId) ==
  LET match == findMatch(ms, matchId)
      winnerId == walkoverWinnerId(match)
      loserId == IF winnerId = match.redPlayerId THEN match.whitePlayerId ELSE match.redPlayerId
      sourceParticipants == {match.redPlayerId, match.whitePlayerId} \ {Null}
      m1 == setResult(ms, matchId, walkoverResult(match))
      m2 == IF match.winnerToMatchId # Null
            THEN placePlayerInMatch(m1, match.winnerToMatchId, winnerId, match.winnerToSlot, sourceParticipants)
            ELSE m1
  IN IF match.loserToMatchId # Null
     THEN placePlayerInMatch(m2, match.loserToMatchId, loserId, match.loserToSlot, sourceParticipants)
     ELSE m2
\* handleWalkover that records the result and advances nobody
walkoverMatches_NoRouting(ms, matchId) ==
  setResult(ms, matchId, walkoverResult(findMatch(ms, matchId)))

walkoverMatches(ms, matchId) ==
  LET match == findMatch(ms, matchId)
      winnerId == walkoverWinnerId(match)
      sourceParticipants == {match.redPlayerId, match.whitePlayerId} \ {Null}
      m1 == setResult(ms, matchId, walkoverResult(match))
  IN IF match.winnerToMatchId # Null
     THEN placePlayerInMatch(m1, match.winnerToMatchId, winnerId, match.winnerToSlot, sourceParticipants)
     ELSE m1
\* the entries match m adds to the sources of slot `slot` of match matchId:
\* the winner edge first, then the loser edge; a null selector (Auto) counts
\* for either slot
slotSourcesOf(m, matchId, slot) ==
  (IF m.winnerToMatchId = matchId /\ (m.winnerToSlot = slot \/ m.winnerToSlot = Auto)
   THEN <<[match |-> m, type |-> "winner"]>> ELSE <<>>)
  \o (IF m.loserToMatchId = matchId /\ (m.loserToSlot = slot \/ m.loserToSlot = Auto)
      THEN <<[match |-> m, type |-> "loser"]>> ELSE <<>>)

\* getSlotSource that lists the edges that name the slot and leaves out the
\* Auto edges
getSlotSource_ExplicitOnly(ms, matchId, slot) ==
  LET RECURSIVE from(_)
      from(k) == IF k > Len(ms) THEN <<>>
                 ELSE (IF ms[k].winnerToMatchId = matchId /\ ms[k].winnerToSlot = slot
                       THEN <<[match |-> ms[k], type |-> "winner"]>> ELSE <<>>)
                      \o (IF ms[k].loserToMatchId = matchId /\ ms[k].loserToSlot = slot
                          THEN <<[match |-> ms[k], type |-> "loser"]>> ELSE <<>>)
                      \o from(k + 1)
  IN from(1)

\* getSlotSource: the sources of a slot in collection order
getSlotSource(ms, matchId, slot) ==
  LET RECURSIVE from(_)
      from(k) == IF k > Len(ms) THEN <<>> ELSE slotSourcesOf(ms[k], matchId, slot) \o from(k + 1)
  IN from(1)

\* --------------------------------------------------------- slot resolution
\* getIncomingSources: an explicit edge counts for its slot, an Auto edge for both
getIncomingSources(ms, matchId) ==
  LET feeds(s) ==
        Cardinality({i \in DOMAIN ms : ms[i].winnerToMatchId = matchId /\ ms[i].winnerToSlot \in {s, Auto}})
        + Cardinality({i \in DOMAIN ms : ms[i].loserToMatchId = matchId /\ ms[i].loserToSlot \in {s, Auto}})
  IN [red |-> feeds("red"), white |-> feeds("white")]

\* --------------------------------------------------------------- MatchCard
isFinished(match) == match.result # NoResult
\* isReady that does not look at the result
isReady_IgnoresResult(match) == match.redPlayerId # Null /\ match.whitePlayerId # Null

isReady(match) == match.redPlayerId # Null /\ match.whitePlayerId # Null /\ match.result = NoResult
\* isBye whose "effectively empty" test forgets the slot's own player
isBye_IgnoresOccupant(ms, match) ==
  LET redSourceExist == getIncomingSources(ms, match.id).red > 0
      whiteSourceExist == getIncomingSources(ms, match.id).white > 0
      isRedEmpty == ~redSourceExist
      isWhiteEmpty == ~whiteSourceExist
      hasRed == match.redPlayerId # Null \/ redSourceExist
      hasWhite == match.whitePlayerId # Null \/ whiteSourceExist
  IN match.result = NoResult /\ ((hasRed /\ isWhiteEmpty) \/ (hasWhite /\ isRedEmpty))
\* isBye that does not look at the result
isBye_IgnoresResult(ms, match) ==
  LET redSourceExist == getIncomingSources(ms, match.id).red > 0
      whiteSourceExist == getIncomingSources(ms, match.id).white > 0
      isRedEmpty == match.redPlayerId = Null /\ ~redSourceExist
      isWhiteEmpty == match.whitePlayerId = Null /\ ~whiteSourceExist
      hasRed == match.redPlayerId # Null \/ redSourceExist
      hasWhite == match.whitePlayerId # Null \/ whiteSourceExist
  IN (hasRed /\ isWhiteEmpty) \/ (hasWhite /\ isRedEmpty)

\* isBye that takes a slot without a player for empty although a feeder
\* will fill it
isBye_WaitingCounts(ms, match) ==
  LET redSourceExist == getIncomingSources(ms, match.id).red > 0
      whiteSourceExist == getIncomingSources(ms, match.id).white > 0
      isRedEmpty == match.redPlayerId = Null
      isWhiteEmpty == match.whitePlayerId = Null
      hasRed == match.redPlayerId # Null \/ redSourceExist
      hasWhite == match.whitePlayerId # Null \/ whiteSourceExist
  IN match.result = NoResult /\ ((hasRed /\ isWhiteEmpty) \/ (hasWhite /\ isRedEmpty))

isBye(ms, match) ==
  LET redSourceExist == getIncomingSources(ms, match.id).red > 0
      whiteSourceExist == getIncomingSources(ms, match.id).white > 0
      isRedEmpty == match.redPlayerId = Null /\ ~redSourceExist
      isWhiteEmpty == match.whitePlayerId = Null /\ ~whiteSourceExist
      hasRed == match.redPlayerId # Null \/ redSourceExist
      hasWhite == match.whitePlayerId # Null \/ whiteSourceExist
  IN match.result = NoResult /\ ((hasRed /\ isWhiteEmpty) \/ (hasWhite /\ isRedEmpty))


\* ------------------------------------------------------- initial brackets
\* initializeMatches creates matches 1..totalMatches with every field null;
\* the setup screen then fills slots and edges (an edge never targets its own
\* match).  The brackets explored: match 1 routes its winner and its loser to
\* any other match and slot and starts with any of its two seeds (players 1
\* and 2) present; match 2 starts empty or with players 3 and 4 and has at
\* most an Auto winner edge to match 3; every other match is an empty root.
NoEdge == [to |-> Null, slot |-> Auto]

EdgeOpts(targets) == {NoEdge} \cup {[to |-> t, slot |-> s] : t \in targets, s \in SlotSel}

newMatch(i) ==
  [id |-> i, redPlayerId |-> Null, whitePlayerId |-> Null,
   winnerToMatchId |-> Null, winnerToSlot |-> Auto,
   loserToMatchId |-> Null, loserToSlot |-> Auto, result |-> NoResult]

configuredMatch(i, red, white, w, l) ==
  [newMatch(i) EXCEPT !.redPlayerId = red, !.whitePlayerId = white,
                      !.winnerToMatchId = w.to, !.winnerToSlot = w.slot,
                      !.loserToMatchId = l.to, !.loserToSlot = l.slot]

MatchOpts(i) ==
  IF i = 1
  THEN {configuredMatch(i, r, wh, w, l) :
          r \in {Null, 1}, wh \in {Null, 2},
          w \in EdgeOpts(MatchIds \ {1}), l \in EdgeOpts(MatchIds \ {1})}
  ELSE IF i = 2
  THEN {configuredMatch(i, o[1], o[2], w, NoEdge) :
          o \in {<<Null, Null>>, <<3, 4>>},
          w \in {NoEdge, [to |-> 3, slot |-> Auto]}}
  ELSE {newMatch(i)}

RECURSIVE Brackets(_)
Brackets(n) ==
  IF n = 0 THEN {<<>>}
  ELSE {Append(ms, m) : ms \in Brackets(n - 1), m \in MatchOpts(n)}

\* the brackets the direct engine calls start from: match 1 has its Red seed,
\* match 2 has no edge
EngineBrackets ==
  {ms \in Brackets(NumMatches) : ms[1].redPlayerId # Null /\ ms[2].winnerToMatchId = Null}

players == [k \in 1..Cardinality(PlayerIds) |-> [id |-> k, name |-> k]]

CurrentId == "t1"

tournament(ms) ==
  [id |-> CurrentId, title |-> "title", players |-> players, matches |-> ms,
   totalMatches |-> NumMatches, status |-> "ACTIVE"]

OtherTournament ==
  [id |-> "t0", title |-> "other", players |-> <<>>, matches |-> <<>>,
   totalMatches |-> 0, status |-> "SETUP"]

emptyForm == [red |-> 0, white |-> 0, details |-> ""]

Forms == [red : Scores, white : Scores, details : Details]

\* the record of a call: the operation, its arguments (matchId is also the
\* target of a direct placement), its outcome and the state it ran in
noPlace == [playerId |-> Null, slot |-> Auto, src |-> {}]

call(op, matchId, form, place, outcome) ==
  [op |-> op, matchId |-> matchId, form |-> form, place |-> place, outcome |-> outcome,
   pre |-> matches, preStore |-> tournaments]
\* a loser derivation that always takes the White occupant
rankLoserId_AlwaysWhite(m) == m.whitePlayerId

\* ------------------------------------------------------ rankings (App.tsx)
\* the loser getRankings derives for a finished match: the occupant of the
\* other slot when the winner sits in Red, the Red occupant otherwise
rankLoserId(m) ==
  IF m.result.winnerId = m.redPlayerId THEN m.whitePlayerId ELSE m.redPlayerId

noRankings == [rankings |-> <<>>, processedPlayers |-> {}]
\* editorData.players.find(pl => pl.id === pid).name
nameOfPlayer(data, pid) ==
  data.players[CHOOSE k \in DOMAIN data.players :
                 /\ data.players[k].id = pid
                 /\ \A j \in DOMAIN data.players : data.players[j].id = pid => k <= j].name

\* addRanking without the processedPlayers test
addRanking_NoDedup(data, acc, pid, title, order) ==
  IF pid = Null THEN acc
  ELSE IF \E k \in DOMAIN data.players : data.players[k].id = pid
  THEN [rankings |-> Append(acc.rankings, [title |-> title, name |-> nameOfPlayer(data, pid), rankOrder |-> order]),
        processedPlayers |-> acc.processedPlayers \cup {pid}]
  ELSE acc

\* addRanking: skips a null id, a player already ranked and an id that names
\* no player
addRanking(data, acc, pid, title, order) ==
  IF pid = Null THEN acc
  ELSE IF pid \in acc.processedPlayers THEN acc
  ELSE IF \E k \in DOMAIN data.players : data.players[k].id = pid
  THEN [rankings |-> Append(acc.rankings, [title |-> title, name |-> nameOfPlayer(data, pid), rankOrder |-> order]),
        processedPlayers |-> acc.processedPlayers \cup {pid}]
  ELSE acc

\* roots.forEach: a finished root adds its winner, then its other occupant
RECURSIVE rankRoots(_, _, _, _, _, _, _)
rankRoots(data, acc, roots, winnerTitle, winnerOrder, loserTitle, loserOrder) ==
  IF roots = <<>> THEN acc
  ELSE LET root == Head(roots)
           next == IF isFinished(root)
                   THEN addRanking(data,
                                   addRanking(data, acc, root.result.winnerId, winnerTitle, winnerOrder),
                                   rankLoserId(root), loserTitle, loserOrder)
                   ELSE acc
       IN rankRoots(data, next, Tail(roots), winnerTitle, winnerOrder, loserTitle, loserOrder)

\* ms.forEach: a finished match adds its loser
RECURSIVE rankLosers(_, _, _, _, _)
rankLosers(data, acc, ms, title, order) ==
  IF ms = <<>> THEN acc
  ELSE LET m == Head(ms)
           next == IF isFinished(m) THEN addRanking(data, acc, rankLoserId(m), title, order) ELSE acc
       IN rankLosers(data, next, Tail(ms), title, order)

\* roots.sort((a, b) => b.id - a.id), on matches with distinct ids
RECURSIVE sortByIdDescending(_)
sortByIdDescending(ms) ==
  IF ms = <<>> THEN <<>>
  ELSE LET top == CHOOSE k \in DOMAIN ms : \A j \in DOMAIN ms : ms[j].id <= ms[k].id
       IN <<ms[top]>> \o sortByIdDescending(SubSeq(ms, 1, top - 1) \o SubSeq(ms, top + 1, Len(ms)))
\* getLosersOfFeeders following loser edges instead of winner edges
getLosersOfFeeders_ByLoserEdge(data, targetMatchIds) ==
  SelectSeq(data.matches, LAMBDA m : m.loserToMatchId # Null /\ m.loserToMatchId \in targetMatchIds)

\* getLosersOfFeeders: the matches whose winner edge names one of targetMatchIds
getLosersOfFeeders(data, targetMatchIds) ==
  SelectSeq(data.matches, LAMBDA m : m.winnerToMatchId # Null /\ m.winnerToMatchId \in targetMatchIds)

idsOf(ms) == {ms[k].id : k \in DOMAIN ms}
\* getRankings that adds the joint 3rd places whether or not a consolation
\* root exists
accumulatedRankings_JointAlways(data, limit) ==
  LET rootMatches == SelectSeq(data.matches, LAMBDA m : m.winnerToMatchId = Null)
      isFedByLoser(root) == \E k \in DOMAIN data.matches : data.matches[k].loserToMatchId = root.id
      mainRoots == sortByIdDescending(SelectSeq(rootMatches, LAMBDA root : ~isFedByLoser(root)))
      consolationRoots == sortByIdDescending(SelectSeq(rootMatches, isFedByLoser))
      semiFinalMatches == getLosersOfFeeders(data, idsOf(mainRoots))
      qfMatches == getLosersOfFeeders(data, idsOf(semiFinalMatches))
      r16Matches == getLosersOfFeeders(data, idsOf(qfMatches))
      afterMain == rankRoots(data, noRankings, mainRoots, "Champion", 1, "2nd Place", 2)
      afterConsolation == rankRoots(data, afterMain, consolationRoots, "3rd Place", 3, "4th Place", 4)
      afterSemis == rankLosers(data, afterConsolation, semiFinalMatches, "3rd Place - Joint", 3)
      afterQf == rankLosers(data, afterSemis, qfMatches, "5th Place", 5)
      afterR16 == rankLosers(data, afterQf, r16Matches, "9th Place", 9)
  IN (IF limit > 4 THEN (IF limit > 8 THEN afterR16 ELSE afterQf) ELSE afterSemis).rankings
\* getRankings that lists the 5th places from limit 4 on
accumulatedRankings_FifthAtFour(data, limit) ==
  LET rootMatches == SelectSeq(data.matches, LAMBDA m : m.winnerToMatchId = Null)
      isFedByLoser(root) == \E k \in DOMAIN data.matches : data.matches[k].loserToMatchId = root.id
      mainRoots == sortByIdDescending(SelectSeq(rootMatches, LAMBDA root : ~isFedByLoser(root)))
      consolationRoots == sortByIdDescending(SelectSeq(rootMatches, isFedByLoser))
      semiFinalMatches == getLosersOfFeeders(data, idsOf(mainRoots))
      qfMatches == getLosersOfFeeders(data, idsOf(semiFinalMatches))
      r16Matches == getLosersOfFeeders(data, idsOf(qfMatches))
      afterMain == rankRoots(data, noRankings, mainRoots, "Champion", 1, "2nd Place", 2)
      afterConsolation == rankRoots(data, afterMain, consolationRoots, "3rd Place", 3, "4th Place", 4)
      afterSemis == IF consolationRoots = <<>>
                    THEN rankLosers(data, afterConsolation, semiFinalMatches, "3rd Place - Joint", 3)
                    ELSE afterConsolation
      afterQf == rankLosers(data, afterSemis, qfMatches, "5th Place", 5)
      afterR16 == rankLosers(data, afterQf, r16Matches, "9th Place", 9)
  IN (IF limit >= 4 THEN (IF limit > 8 THEN afterR16 ELSE afterQf) ELSE afterSemis).rankings

\* the list getRankings has accumulated before it sorts and truncates
accumulatedRankings(data, limit) ==
  LET rootMatches == SelectSeq(data.matches, LAMBDA m : m.winnerToMatchId = Null)
      isFedByLoser(root) == \E k \in DOMAIN data.matches : data.matches[k].loserToMatchId = root.id
      mainRoots == sortByIdDescending(SelectSeq(rootMatches, LAMBDA root : ~isFedByLoser(root)))
      consolationRoots == sortByIdDescending(SelectSeq(rootMatches, isFedByLoser))
      semiFinalMatches == getLosersOfFeeders(data, idsOf(mainRoots))
      qfMatches == getLosersOfFeeders(data, idsOf(semiFinalMatches))
      r16Matches == getLosersOfFeeders(data, idsOf(qfMatches))
      afterMain == rankRoots(data, noRankings, mainRoots, "Champion", 1, "2nd Place", 2)
      afterConsolation == rankRoots(data, afterMain, consolationRoots, "3rd Place", 3, "4th Place", 4)
      afterSemis == IF consolationRoots = <<>>
                    THEN rankLosers(data, afterConsolation, semiFinalMatches, "3rd Place - Joint", 3)
                    ELSE afterConsolation
      afterQf == rankLosers(data, afterSemis, qfMatches, "5th Place", 5)
      afterR16 == rankLosers(data, afterQf, r16Matches, "9th Place", 9)
  IN (IF limit > 4 THEN (IF limit > 8 THEN afterR16 ELSE afterQf) ELSE afterSemis).rankings

\* rankings.sort((a, b) => a.rankOrder - b.rankOrder): entries of equal
\* rankOrder keep their order
RECURSIVE sortByRankOrder(_)
\* a sort by rankOrder that puts an entry behind the later entries of its rank
RECURSIVE sortByRankOrder_Unstable(_)
sortByRankOrder_Unstable(rs) ==
  IF rs = <<>> THEN <<>>
  ELSE LET rest == sortByRankOrder_Unstable(Tail(rs))
           first == Head(rs)
       IN SelectSeq(rest, LAMBDA r : r.rankOrder <= first.rankOrder)
            \o <<first>>
            \o SelectSeq(rest, LAMBDA r : r.rankOrder > first.rankOrder)

sortByRankOrder(rs) ==
  IF rs = <<>> THEN <<>>
  ELSE LET rest == sortByRankOrder(Tail(rs))
           first == Head(rs)
       IN SelectSeq(rest, LAMBDA r : r.rankOrder < first.rankOrder)
            \o <<first>>
            \o SelectSeq(rest, LAMBDA r : r.rankOrder >= first.rankOrder)

\* .slice(0, limit)
sliceTo(rs, limit) == SubSeq(rs, 1, IF limit < Len(rs) THEN limit ELSE Len(rs))

getRankings(data, limit) == sliceTo(sortByRankOrder(accumulatedRankings(data, limit)), limit)
\* ------------------------------------------------- layout (BracketTree.tsx)
maxDepth == 10

\* matchDepthMap.set(matchId, depth)
setDepth(map, matchId, depth) ==
  [id \in DOMAIN map \cup {matchId} |-> IF id = matchId THEN depth ELSE map[id]]

\* the matches whose winner edge or loser edge names matchId, in array order
feedersOf(ms, matchId) ==
  SelectSeq(ms, LAMBDA m : \/ m.winnerToMatchId # Null /\ m.winnerToMatchId = matchId
                           \/ m.loserToMatchId # Null /\ m.loserToMatchId = matchId)

\* calculateDepth: returns matchDepthMap after the call. A stored depth of 0
\* reads as -1 (matchDepthMap.get(matchId) || -1).
RECURSIVE calculateDepth(_, _, _, _)
RECURSIVE calculateFeeders(_, _, _, _)
\* calculateDepth with the cap test passed one level too late
calculateDepth_CapOneLate(ms, map, matchId, currentDepth) ==
  IF currentDepth > maxDepth + 1 THEN map
  ELSE LET existing == IF matchId \in DOMAIN map /\ map[matchId] # 0 THEN map[matchId] ELSE -1
       IN IF currentDepth > existing
          THEN calculateFeeders(ms, setDepth(map, matchId, currentDepth), feedersOf(ms, matchId), currentDepth + 1)
          ELSE calculateFeeders(ms, map, feedersOf(ms, matchId), currentDepth + 1)
\* calculateDepth that keeps the first depth stored for a match
calculateDepth_KeepsFirst(ms, map, matchId, currentDepth) ==
  IF currentDepth > maxDepth THEN map
  ELSE IF matchId \in DOMAIN map
       THEN calculateFeeders(ms, map, feedersOf(ms, matchId), currentDepth + 1)
       ELSE calculateFeeders(ms, setDepth(map, matchId, currentDepth), feedersOf(ms, matchId), currentDepth + 1)

calculateDepth(ms, map, matchId, currentDepth) ==
  IF currentDepth > maxDepth THEN map
  ELSE LET existing == IF matchId \in DOMAIN map /\ map[matchId] # 0 THEN map[matchId] ELSE -1
       IN IF currentDepth > existing
          THEN calculateFeeders(ms, setDepth(map, matchId, currentDepth), feedersOf(ms, matchId), currentDepth + 1)
          ELSE calculateFeeders(ms, map, feedersOf(ms, matchId), currentDepth + 1)

\* feeders.forEach(f => calculateDepth(f.id, currentDepth + 1))
calculateFeeders(ms, map, feeders, depth) ==
  IF feeders = <<>> THEN map
  ELSE calculateFeeders(ms, calculateDepth(ms, map, Head(feeders).id, depth), Tail(feeders), depth)

\* matches.find(p => p.id === m.winnerToMatchId || p.id === m.loserToMatchId),
\* as an index into ms, 0 when there is none
parentIndex(ms, m) ==
  LET hits == {k \in DOMAIN ms : \/ m.winnerToMatchId # Null /\ ms[k].id = m.winnerToMatchId
                                 \/ m.loserToMatchId # Null /\ ms[k].id = m.loserToMatchId}
  IN IF hits = {} THEN 0 ELSE CHOOSE k \in hits : \A j \in hits : k <= j

\* the pass over the matches the traversal from the root did not reach, from
\* index k on
RECURSIVE placeOrphans(_, _, _)
\* an orphan pass without the fallback: a match with no placed target keeps no
\* depth
RECURSIVE placeOrphans_NoFallback(_, _, _)
placeOrphans_NoFallback(ms, map, k) ==
  IF k > Len(ms) THEN map
  ELSE LET m == ms[k]
           parent == parentIndex(ms, m)
           next == IF m.id \notin DOMAIN map /\ parent # 0 /\ ms[parent].id \in DOMAIN map
                   THEN calculateDepth(ms, map, m.id, map[ms[parent].id] + 1)
                   ELSE map
       IN placeOrphans_NoFallback(ms, next, k + 1)

\* an orphan pass that puts every match the traversal did not reach at depth 0
RECURSIVE placeOrphans_AlwaysZero(_, _, _)
placeOrphans_AlwaysZero(ms, map, k) ==
  IF k > Len(ms) THEN map
  ELSE placeOrphans_AlwaysZero(ms, IF ms[k].id \in DOMAIN map THEN map ELSE setDepth(map, ms[k].id, 0), k + 1)

placeOrphans(ms, map, k) ==
  IF k > Len(ms) THEN map
  ELSE LET m == ms[k]
           parent == parentIndex(ms, m)
           next == IF m.id \in DOMAIN map THEN map
                   ELSE IF parent # 0 /\ ms[parent].id \in DOMAIN map
                   THEN calculateDepth(ms, map, m.id, map[ms[parent].id] + 1)
                   ELSE setDepth(map, m.id, 0)
       IN placeOrphans(ms, next, k + 1)

\* matchDepthMap when the grouping starts
depthsOf(ms, rootMatchId) == placeOrphans(ms, calculateDepth(ms, <<>>, rootMatchId, 0), 1)

\* Math.max(...matchDepthMap.values(), 0)
maxFoundDepth(map) ==
  IF DOMAIN map = {} THEN 0
  ELSE CHOOSE d \in {map[id] : id \in DOMAIN map} \cup {0} :
         \A e \in {map[id] : id \in DOMAIN map} \cup {0} : e <= d

\* .sort((a, b) => a.id - b.id), on matches with distinct ids
RECURSIVE sortByIdAscending(_)
sortByIdAscending(ms) ==
  IF ms = <<>> THEN <<>>
  ELSE LET low == CHOOSE k \in DOMAIN ms : \A j \in DOMAIN ms : ms[k].id <= ms[j].id
       IN <<ms[low]>> \o sortByIdAscending(SubSeq(ms, 1, low - 1) \o SubSeq(ms, low + 1, Len(ms)))
\* a grouping that starts with depth 0 and ends with maxFoundDepth
organizedLevels_RootFirst(ms, map) ==
  LET top == maxFoundDepth(map)
  IN [n \in 1..(top + 1) |->
        sortByIdAscending(SelectSeq(ms, LAMBDA m : m.id \in DOMAIN map /\ map[m.id] = n - 1))]

\* organizedLevels: one group per depth from maxFoundDepth down to 0
organizedLevels(ms, map) ==
  LET top == maxFoundDepth(map)
  IN [n \in 1..(top + 1) |->
        sortByIdAscending(SelectSeq(ms, LAMBDA m : m.id \in DOMAIN map /\ map[m.id] = top + 1 - n))]

\* the useMemo of BracketTree
BracketTree(ms, rootMatchId) ==
  [rootMatchId |-> rootMatchId,
   matchDepthMap |-> depthsOf(ms, rootMatchId),
   levels |-> organizedLevels(ms, depthsOf(ms, rootMatchId))]

\* BracketTree before its first render
notRendered == [rootMatchId |-> Null, matchDepthMap |-> <<>>, levels |-> <<>>]

InitWith(brackets) ==
  /\ \E ms \in brackets : editorData = tournament(ms)
  /\ tournaments = <<OtherTournament, editorData>>
  /\ activeMatchId = Null
  /\ scoreForm = emptyForm
  /\ last = [op |-> "none", matchId |-> Null, form |-> emptyForm, place |-> noPlace,
             outcome |-> "none", pre |-> editorData.matches, preStore |-> tournaments]
  /\ calls = 0
  /\ setupStep = 3
  /\ rankingLimit = 4
  /\ rankings = <<>>
  /\ bracketTree = notRendered

\* startTournament has persisted the bracket next to an older tournament
Init == InitWith(Brackets(NumMatches))

\* ----------------------------------------------------------------- actions
\* submitScore with activeMatchId = id and scoreForm = form
submitScoreOn(id, form) ==
  LET outcome == submitOutcome(matches, id, form) IN
  /\ scoreForm' = form
  /\ last' = call("submitScore", id, form, noPlace, outcome)
  /\ UNCHANGED viewVars
  /\ IF outcome = "ok"
     THEN /\ editorData' = [editorData EXCEPT !.matches = submitMatches(matches, id, form)]
          /\ tournaments' = persistTournament(tournaments, editorData')
          /\ activeMatchId' = Null
     ELSE /\ activeMatchId' = id
          /\ UNCHANGED <<editorData, tournaments>>

\* handleWalkover(matchId), the confirm() dialog answered with OK
handleWalkover(matchId) ==
  LET outcome == walkoverOutcome(matches, matchId) IN
  /\ last' = call("walkover", matchId, emptyForm, noPlace, outcome)
  /\ IF outcome = "ok"
     THEN /\ editorData' = [editorData EXCEPT !.matches = walkoverMatches(matches, matchId)]
          /\ tournaments' = persistTournament(tournaments, editorData')
     ELSE UNCHANGED <<editorData, tournaments>>
  /\ UNCHANGED <<activeMatchId, scoreForm, viewVars>>

\* --- the application, driven through the rendered buttons
\* MatchCard's score button (rendered when isReady); the modal is not open
onScore(id) ==
  /\ setupStep = 3
  /\ activeMatchId = Null
  /\ hasMatch(matches, id) /\ isReady(findMatch(matches, id))
  /\ activeMatchId' = id
  /\ scoreForm' = emptyForm
  /\ UNCHANGED <<editorData, tournaments, last, calls, viewVars>>

\* the modal's two score inputs
setScoreRed(v) ==
  /\ activeMatchId # Null
  /\ v # scoreForm.red
  /\ scoreForm' = [scoreForm EXCEPT !.red = v]
  /\ UNCHANGED <<editorData, tournaments, activeMatchId, last, calls, viewVars>>

setScoreWhite(v) ==
  /\ activeMatchId # Null
  /\ v # scoreForm.white
  /\ scoreForm' = [scoreForm EXCEPT !.white = v]
  /\ UNCHANGED <<editorData, tournaments, activeMatchId, last, calls, viewVars>>

\* the modal's close button
closeModal ==
  /\ activeMatchId # Null
  /\ activeMatchId' = Null
  /\ UNCHANGED <<editorData, tournaments, scoreForm, last, calls, viewVars>>

\* the modal's submit button
submitScore ==
  /\ activeMatchId # Null
  /\ submitScoreOn(activeMatchId, scoreForm)
  /\ UNCHANGED calls

\* MatchCard's walkover button (rendered when isBye); the modal is not open
onWalkover(id) ==
  /\ setupStep = 3
  /\ activeMatchId = Null
  /\ hasMatch(matches, id) /\ isBye(matches, findMatch(matches, id))
  /\ handleWalkover(id)
  /\ UNCHANGED calls

Next ==
  \/ \E id \in MatchIds : onScore(id)
  \/ \E v \in Scores : setScoreRed(v)
  \/ \E v \in Scores : setScoreWhite(v)
  \/ closeModal
  \/ submitScore
  \/ \E id \in MatchIds : onWalkover(id)

Spec == Init /\ [][Next]_vars

\* --- the engine, its two operations called with any match id and any scores
engineSubmitScore ==
  /\ calls < MaxCalls
  /\ \E id \in CallIds, form \in Forms : submitScoreOn(id, form)
  /\ calls' = calls + 1

engineWalkover ==
  /\ calls < MaxCalls
  /\ \E id \in CallIds \ {Null} : handleWalkover(id)
  /\ calls' = calls + 1

EngineInit == InitWith(EngineBrackets)

EngineNext == engineSubmitScore \/ engineWalkover

EngineSpec == EngineInit /\ [][EngineNext]_vars
\* --- scores entered again: submitScore called on any match that has both
\* players, finished or not (submitScore does not look at match.result),
\* and the walkover taken where the card offers it. The brackets have match
\* 1 seeded in both slots and a winner edge on match 2.
MaxReplays == 3

ReplayBrackets ==
  {ms \in Brackets(NumMatches) :
     ms[1].redPlayerId # Null /\ ms[1].whitePlayerId # Null /\ ms[2].winnerToMatchId # Null}

replaySubmitScore ==
  /\ calls < MaxReplays
  /\ \E id \in MatchIds, form \in Forms :
       /\ submitOutcome(matches, id, form) = "ok"
       /\ submitScoreOn(id, form)
  /\ calls' = calls + 1

replayWalkover ==
  /\ calls < MaxReplays
  /\ \E id \in MatchIds :
       /\ hasMatch(matches, id) /\ isBye(matches, findMatch(matches, id))
       /\ handleWalkover(id)
  /\ calls' = calls + 1

ReplayInit == InitWith(ReplayBrackets)

ReplayNext == replaySubmitScore \/ replayWalkover

ReplaySpec == ReplayInit /\ [][ReplayNext]_vars
\* --- the rankings page: getRankings applied to what the match page reached.
\* The application opens the page once every match is finished and offers the
\* limits 4 and 8; here the page opens on every state of the tournament and
\* with every limit of RankingLimits, the function's whole bounded domain.
RankingLimits == {2, 4, 8}

\* renderRankings
renderRankings(limit) == getRankings(editorData, limit)

\* setSetupStep(4)
viewRankings ==
  /\ setupStep = 3 /\ activeMatchId = Null
  /\ setupStep' = 4
  /\ rankings' = renderRankings(rankingLimit)
  /\ UNCHANGED <<editorData, tournaments, activeMatchId, scoreForm, last, calls, rankingLimit, bracketTree>>

\* the "Top n" buttons
setRankingLimit(n) ==
  /\ setupStep = 4 /\ n # rankingLimit
  /\ rankingLimit' = n
  /\ rankings' = renderRankings(n)
  /\ UNCHANGED <<editorData, tournaments, activeMatchId, scoreForm, last, calls, setupStep, bracketTree>>

\* the page's back button, setSetupStep(3)
backToMatches ==
  /\ setupStep = 4
  /\ setupStep' = 3
  /\ rankings' = <<>>
  /\ UNCHANGED <<editorData, tournaments, activeMatchId, scoreForm, last, calls, rankingLimit, bracketTree>>

RankNext ==
  \/ \E id \in MatchIds : onScore(id)
  \/ \E v \in Scores : setScoreRed(v)
  \/ \E v \in Scores : setScoreWhite(v)
  \/ closeModal
  \/ submitScore
  \/ \E id \in MatchIds : onWalkover(id)
  \/ viewRankings
  \/ \E n \in RankingLimits : setRankingLimit(n)
  \/ backToMatches

\* two seeded semifinals, matches 1 and 2, whose winner edges name match 3
\* with every pair of slot selectors the setup page offers
RankBrackets ==
  {[i \in 1..NumMatches |->
      IF i = 1 THEN configuredMatch(1, 1, 2, [to |-> 3, slot |-> s1], NoEdge)
      ELSE IF i = 2 THEN configuredMatch(2, 3, 4, [to |-> 3, slot |-> s2], NoEdge)
      ELSE newMatch(i)] : s1 \in SlotSel, s2 \in SlotSel}

RankInit == InitWith(Brackets(NumMatches) \cup RankBrackets)

RankSpec == RankInit /\ [][RankNext]_vars

\* --- play to the end: a score is submitted for a match the card shows as
\* ready (any scores that are not tied) and the walkover is taken where the
\* card offers it, from every bracket of the match page and of the rankings
\* page. An operation that can finish a match is not postponed forever.
isComplete(data) ==
  Cardinality({i \in DOMAIN data.matches : isFinished(data.matches[i])}) = Len(data.matches)
    /\ Len(data.matches) > 0

progressSubmitScore ==
  /\ setupStep = 3 /\ activeMatchId = Null
  /\ \E id \in MatchIds, form \in Forms :
       /\ hasMatch(matches, id) /\ isReady(findMatch(matches, id))
       /\ submitOutcome(matches, id, form) = "ok"
       /\ submitScoreOn(id, form)
  /\ UNCHANGED calls

progressWalkover == \E id \in MatchIds : onWalkover(id)

ProgressInit == InitWith(Brackets(NumMatches) \cup RankBrackets)

ProgressNext == progressSubmitScore \/ progressWalkover

ProgressSpec ==
  /\ ProgressInit /\ [][ProgressNext]_vars
  /\ WF_vars(ProgressNext /\ editorData' # editorData)

\* --- the rankings page on brackets of several rounds. NumRounds matches;
\* match i < NumRounds sends its winner to any later match or nowhere, match
\* 1 may send its loser to the last match. Matches 1, 2 and 3 are seeded
\* with the four players; a slot left open is filled by a winner or stays
\* empty and is passed by a walkover. The limits are those of the page and
\* one above 8.
NumRounds == 4
RoundIds == 1..NumRounds
RoundsLimits == {4, 8, 16}

RoundsMatch(i, w, l) ==
  configuredMatch(i, IF i = 1 THEN 1 ELSE Null,
                     IF i \in {1, 2, 3} THEN i + 1 ELSE Null, w, l)

RoundsBrackets ==
  {[i \in RoundIds |->
      RoundsMatch(i, IF wt[i] = Null THEN NoEdge ELSE [to |-> wt[i], slot |-> Auto],
                     IF i = 1 /\ lt # Null THEN [to |-> lt, slot |-> Auto] ELSE NoEdge)] :
     wt \in {f \in [RoundIds -> RoundIds \cup {Null}] : \A i \in RoundIds : f[i] = Null \/ f[i] > i},
     lt \in {Null, NumRounds}}

RoundsInit ==
  /\ \E ms \in RoundsBrackets : editorData = [tournament(ms) EXCEPT !.totalMatches = Len(ms)]
  /\ tournaments = <<OtherTournament, editorData>>
  /\ activeMatchId = Null
  /\ scoreForm = emptyForm
  /\ last = [op |-> "none", matchId |-> Null, form |-> emptyForm, place |-> noPlace,
             outcome |-> "none", pre |-> editorData.matches, preStore |-> tournaments]
  /\ calls = 0
  /\ setupStep = 3
  /\ rankingLimit = 4
  /\ rankings = <<>>
  /\ bracketTree = notRendered

RoundsNext ==
  \/ \E id \in RoundIds : onScore(id)
  \/ \E v \in Scores : setScoreRed(v)
  \/ \E v \in Scores : setScoreWhite(v)
  \/ closeModal
  \/ submitScore
  \/ \E id \in RoundIds : onWalkover(id)
  \/ viewRankings
  \/ \E n \in RoundsLimits : setRankingLimit(n)
  \/ backToMatches

RoundsSpec == RoundsInit /\ [][RoundsNext]_vars

\* --- the bracket view: BracketTree applied to match graphs. Edges are all
\* that the layout reads, so the matches are empty; match 1 may have both
\* edges, the others a winner edge, to any other match (cycles included).
\* One more collection is a chain of ChainLen matches, each sending its
\* winner to the next, longer than the depth cap.
ChainLen == 12

LayoutMatch(i, n) ==
  {configuredMatch(i, Null, Null, [to |-> w, slot |-> Auto], [to |-> l, slot |-> Auto]) :
     w \in (0..n) \ {i}, l \in IF i = 1 THEN (0..n) \ {i} ELSE {Null}}

RECURSIVE LayoutGraphs(_, _)
LayoutGraphs(k, n) ==
  IF k = 0 THEN {<<>>}
  ELSE {Append(ms, m) : ms \in LayoutGraphs(k - 1, n), m \in LayoutMatch(k, n)}

Chain ==
  [i \in 1..ChainLen |->
     configuredMatch(i, Null, Null,
                     IF i < ChainLen THEN [to |-> i + 1, slot |-> Auto] ELSE NoEdge, NoEdge)]

\* ChainLen matches that send their winners down to match 1, and a last
\* match without edges (the id the application passes as rootMatchId)
Ladder ==
  [i \in 1..(ChainLen + 1) |->
     configuredMatch(i, Null, Null,
                     IF i \in 2..ChainLen THEN [to |-> i - 1, slot |-> Auto] ELSE NoEdge, NoEdge)]

LayoutCollections == LayoutGraphs(NumMatches, NumMatches) \cup {Chain, Ladder}

LayoutInit ==
  /\ \E ms \in LayoutCollections : editorData = [tournament(ms) EXCEPT !.totalMatches = Len(ms)]
  /\ tournaments = <<OtherTournament, editorData>>
  /\ activeMatchId = Null
  /\ scoreForm = emptyForm
  /\ last = [op |-> "none", matchId |-> Null, form |-> emptyForm, place |-> noPlace,
             outcome |-> "none", pre |-> editorData.matches, preStore |-> tournaments]
  /\ calls = 0
  /\ setupStep = 3
  /\ rankingLimit = 4
  /\ rankings = <<>>
  /\ bracketTree = notRendered

\* BracketTree rendered with a rootMatchId: every id of the collection and
\* one that names no match (the application passes totalMatches)
renderBracketTree ==
  /\ bracketTree = notRendered
  /\ \E rootMatchId \in 1..(Len(matches) + 1) : bracketTree' = BracketTree(matches, rootMatchId)
  /\ UNCHANGED <<editorData, tournaments, activeMatchId, scoreForm, last, calls, setupStep, rankingLimit, rankings>>

LayoutNext == renderBracketTree

LayoutSpec == LayoutInit /\ [][LayoutNext]_vars

\* --- the three-match scenario: semifinal 1 sends its winner to Red of the
\* final 3, semifinal 2 to White; the score inputs take values up to
\* ScenarioMaxScore. No match of this bracket is ever a bye, so no walkover
\* button is rendered.
ScenarioMaxScore == 3

ScenarioScores == 0..ScenarioMaxScore

ScenarioBracket ==
  [i \in 1..NumMatches |->
     IF i = 1 THEN configuredMatch(1, 1, 2, [to |-> 3, slot |-> "red"], NoEdge)
     ELSE IF i = 2 THEN configuredMatch(2, 3, 4, [to |-> 3, slot |-> "white"], NoEdge)
     ELSE newMatch(i)]

ScenarioInit == InitWith({ScenarioBracket})

ScenarioNext ==
  \/ \E id \in MatchIds : onScore(id)
  \/ \E v \in ScenarioScores : setScoreRed(v)
  \/ \E v \in ScenarioScores : setScoreWhite(v)
  \/ closeModal
  \/ submitScore
  \/ viewRankings
  \/ \E n \in RankingLimits : setRankingLimit(n)
  \/ backToMatches

ScenarioSpec == ScenarioInit /\ [][ScenarioNext]_vars

\* --- placePlayerInMatch as a function of its arguments: applied once to a
\* match collection, then once more with the same arguments
PlaceCollections ==
  LET initial == {ms \in Brackets(NumMatches) : ms[1].winnerToMatchId = Null /\ ms[1].loserToMatchId = Null}
  IN initial \cup {submitMatches(ms, 2, [red |-> 1, white |-> 0, details |-> ""]) :
                     ms \in {x \in initial : x[2].redPlayerId # Null}}

\* sourceParticipants holds the (at most two) players of a source match
SourceSets == {P \in SUBSET PlayerIds : Cardinality(P) <= 2}

placeArgs == [playerId : PlayerIds, slot : SlotSel, src : SourceSets]

placeWith(targetMatchId, a) ==
  /\ editorData' = [editorData EXCEPT !.matches =
                      placePlayerInMatch(matches, targetMatchId, a.playerId, a.slot, a.src)]
  /\ last' = call("place", targetMatchId, emptyForm, a, "ok")
  /\ calls' = calls + 1
  /\ UNCHANGED <<tournaments, activeMatchId, scoreForm, viewVars>>

placeOnce ==
  /\ calls = 0
  /\ \E t \in CallIds, a \in placeArgs : placeWith(t, a)

placeAgain ==
  /\ calls = 1
  /\ placeWith(last.matchId, last.place)

PlaceInit == InitWith(PlaceCollections)

PlaceNext == placeOnce \/ placeAgain

PlaceSpec == PlaceInit /\ [][PlaceNext]_vars

\* ================================================================== claims
\* the match the last call named, as it was when the call was made
lastMatch == findMatch(last.pre, last.matchId)

lastNamesMatch == hasMatch(last.pre, last.matchId)

\* the last call was a score submission on a match with both slots occupied
lastSubmitOnFull ==
  /\ last.op = "submitScore"
  /\ lastNamesMatch
  /\ lastMatch.redPlayerId # Null /\ lastMatch.whitePlayerId # Null

\* the two players of the last scored match, by the submitted scores
lastWinner == IF last.form.red > last.form.white THEN lastMatch.redPlayerId ELSE lastMatch.whitePlayerId

lastLoser == IF last.form.red > last.form.white THEN lastMatch.whitePlayerId ELSE lastMatch.redPlayerId

\* player p sits where an edge (to, slot) says: in the declared slot, or for
\* an Auto edge in one of the two slots of the target
occupiesEdge(ms, to, slot, p) ==
  /\ hasMatch(ms, to)
  /\ IF slot = Auto
     THEN p \in {findMatch(ms, to).redPlayerId, findMatch(ms, to).whitePlayerId}
     ELSE slotOf(findMatch(ms, to), slot) = p

\* C1: a score submission with equal scores on a match with both slots
\* occupied is rejected with the tied-score alert and leaves every match and
\* the persisted tournament list as they were.
C1_TieRejected ==
  (lastSubmitOnFull /\ last.form.red = last.form.white)
    => /\ last.outcome = "tied"
       /\ matches = last.pre
       /\ tournaments = last.preStore

C1_Witness ==
  /\ lastSubmitOnFull
  /\ last.form.red = last.form.white /\ last.form.red > 0
  /\ last.outcome = "tied"
  /\ lastMatch.winnerToMatchId # Null

\* C2 as stated: after a successful score submission on a match with both
\* edges set, the winner sits where the winner edge says and the loser where
\* the loser edge says, whatever the targets and slots.
C2_Original ==
  (lastSubmitOnFull /\ last.outcome = "ok"
     /\ lastMatch.winnerToMatchId # Null /\ lastMatch.loserToMatchId # Null)
    => /\ occupiesEdge(matches, lastMatch.winnerToMatchId, lastMatch.winnerToSlot, lastWinner)
       /\ occupiesEdge(matches, lastMatch.loserToMatchId, lastMatch.loserToSlot, lastLoser)

\* an Auto placement into the target has a slot to use: one that holds a
\* player of the source match, or an empty one
autoHasSlot(ms, to, src) ==
  /\ hasMatch(ms, to)
  /\ \E sl \in Slots : slotOf(findMatch(ms, to), sl) \in src \cup {Null}

\* what an edge (to, slot) guarantees for player p placed from the last
\* scored match: the declared slot holds p; an Auto edge puts p in one of the
\* two slots when the target had a slot to use and leaves the target as it
\* was otherwise
edgeHonoured(to, slot, p) ==
  IF slot # Auto \/ autoHasSlot(last.pre, to, {lastMatch.redPlayerId, lastMatch.whitePlayerId})
  THEN occupiesEdge(matches, to, slot, p)
  ELSE findMatch(matches, to) = findMatch(last.pre, to)

\* C2 (amended): after a successful score submission on a match whose winner
\* edge and loser edge are both set and name two different matches, the
\* winner sits in the declared slot of the winner target and the loser in the
\* declared slot of the loser target; for an Auto edge the player sits in one
\* of the target's two slots if the target had an empty slot or a slot holding
\* a player of the scored match, and the target is unchanged otherwise.
C2_Routing ==
  (lastSubmitOnFull /\ last.form.red # last.form.white
     /\ lastMatch.winnerToMatchId # Null /\ lastMatch.loserToMatchId # Null
     /\ lastMatch.winnerToMatchId # lastMatch.loserToMatchId)
    => /\ last.outcome = "ok"
       /\ edgeHonoured(lastMatch.winnerToMatchId, lastMatch.winnerToSlot, lastWinner)
       /\ edgeHonoured(lastMatch.loserToMatchId, lastMatch.loserToSlot, lastLoser)

\* a submission that routed the winner through an Auto edge and the loser
\* through an explicit edge into an occupied slot of another match
C2_Witness ==
  /\ lastSubmitOnFull /\ last.outcome = "ok"
  /\ lastMatch.winnerToMatchId # Null /\ lastMatch.loserToMatchId # Null
  /\ lastMatch.winnerToMatchId # lastMatch.loserToMatchId
  /\ lastMatch.winnerToSlot = Auto
  /\ lastMatch.loserToSlot = "white"
  /\ findMatch(last.pre, lastMatch.loserToMatchId).whitePlayerId # Null
  /\ findMatch(matches, lastMatch.loserToMatchId).whitePlayerId = lastLoser
  /\ lastWinner \in {findMatch(matches, lastMatch.winnerToMatchId).redPlayerId,
                     findMatch(matches, lastMatch.winnerToMatchId).whitePlayerId}

\* the last call was a walkover that set a result
lastWalkoverDone == last.op = "walkover" /\ lastNamesMatch /\ last.outcome = "ok"

\* C3 as stated: after a walkover on a match with a loser edge, the match the
\* loser edge names is exactly as it was before the walkover.
C3_Original ==
  (lastWalkoverDone /\ lastMatch.loserToMatchId # Null)
    => findMatch(matches, lastMatch.loserToMatchId) = findMatch(last.pre, lastMatch.loserToMatchId)

\* C3 (amended): after a walkover on a match with a loser edge, the match the
\* loser edge names is as it was before the walkover unless the winner edge
\* names the same match; in that case it differs at most by the winner's
\* placement (no slot of it holds anything but the winner or what it held).
C3_NoLoserRouting ==
  (lastWalkoverDone /\ lastMatch.loserToMatchId # Null)
    => LET before == findMatch(last.pre, lastMatch.loserToMatchId)
           after == findMatch(matches, lastMatch.loserToMatchId)
           winner == IF lastMatch.redPlayerId # Null THEN lastMatch.redPlayerId ELSE lastMatch.whitePlayerId
       IN IF lastMatch.loserToMatchId # lastMatch.winnerToMatchId
          THEN after = before
          ELSE /\ after.result = before.result
               /\ \A sl \in Slots : slotOf(after, sl) \in {slotOf(before, sl), winner}
               /\ \E sl \in Slots : slotOf(after, sl) = slotOf(before, sl)

\* a walkover on a match whose loser edge names an occupied slot of a match
\* other than the winner's target
C3_Witness ==
  /\ lastWalkoverDone
  /\ lastMatch.loserToMatchId # Null
  /\ lastMatch.winnerToMatchId # Null
  /\ lastMatch.loserToMatchId # lastMatch.winnerToMatchId
  /\ lastMatch.loserToSlot = "red"
  /\ findMatch(matches, lastMatch.loserToMatchId).redPlayerId # Null
  /\ findMatch(matches, lastMatch.winnerToMatchId) # findMatch(last.pre, lastMatch.winnerToMatchId)

\* C4: finished is terminal: a match whose result is set still has a result
\* after every further submitScore or walkover, the placements they make
\* included.
C4_FinishedIsTerminal ==
  [][\A i \in DOMAIN matches : isFinished(matches[i]) => isFinished(matches'[i])]_vars

\* a finished match received a player from a match scored after it
C4_Witness ==
  /\ lastSubmitOnFull /\ last.outcome = "ok"
  /\ lastMatch.winnerToMatchId # Null
  /\ isFinished(findMatch(last.pre, lastMatch.winnerToMatchId))
  /\ findMatch(matches, lastMatch.winnerToMatchId) # findMatch(last.pre, lastMatch.winnerToMatchId)
  /\ isFinished(findMatch(matches, lastMatch.winnerToMatchId))

\* C5: a result is written at most once: no step changes the result of a
\* finished match, and every submitScore or walkover that writes a result is
\* applied to a match that had none.
C5_ResultWrittenOnce ==
  [][/\ \A i \in DOMAIN matches :
          isFinished(matches[i]) => matches'[i].result = matches[i].result
     /\ (last' # last /\ last'.outcome = "ok")
          => ~isFinished(findMatch(matches, last'.matchId))]_vars

\* a result was written while another match was already finished
C5_Witness ==
  /\ last.op \in {"submitScore", "walkover"} /\ last.outcome = "ok"
  /\ \E i \in DOMAIN matches :
        /\ matches[i].id # last.matchId
        /\ isFinished(last.pre[i])
        /\ matches[i].result = last.pre[i].result
        /\ matches[i] # last.pre[i]

\* C6: a submission with unequal scores on a match with both slots occupied
\* succeeds and stores the result {winnerId, redScore, whiteScore, details}
\* with the submitted scores and details, the winner being the Red occupant
\* when redScore > whiteScore and the White occupant otherwise; the player
\* sent along an explicit loser edge is the other occupant.
C6_SubmitResult ==
  (lastSubmitOnFull /\ last.form.red # last.form.white)
    => /\ last.outcome = "ok"
       /\ findMatch(matches, last.matchId).result =
            [winnerId |-> lastWinner, redScore |-> last.form.red,
             whiteScore |-> last.form.white, details |-> last.form.details]
       /\ (lastMatch.loserToMatchId # Null /\ lastMatch.loserToSlot \in Slots)
            => slotOf(findMatch(matches, lastMatch.loserToMatchId), lastMatch.loserToSlot) = lastLoser

\* White won a submission whose loser went through an explicit edge
C6_Witness ==
  /\ lastSubmitOnFull /\ last.outcome = "ok"
  /\ last.form.white > last.form.red
  /\ findMatch(matches, last.matchId).result.winnerId = lastMatch.whitePlayerId
  /\ lastMatch.loserToMatchId # Null /\ lastMatch.loserToSlot = "white"
  /\ findMatch(matches, lastMatch.loserToMatchId).whitePlayerId = lastMatch.redPlayerId

\* the last call was a walkover on a match with exactly one slot occupied
lastWalkoverOnSingle ==
  /\ last.op = "walkover"
  /\ lastNamesMatch
  /\ (lastMatch.redPlayerId = Null) # (lastMatch.whitePlayerId = Null)

\* the only occupant of the match the last walkover named
lastOccupant == IF lastMatch.redPlayerId # Null THEN lastMatch.redPlayerId ELSE lastMatch.whitePlayerId

\* C7: a walkover on a match with one occupied slot succeeds, sets the result
\* with that slot's player as winner and both scores 0, and, if the match has
\* a winner edge, leaves the winner-edge target as placePlayerInMatch (the
\* placement submitScore uses) makes it for that winner and edge.
C7_WalkoverResult ==
  lastWalkoverOnSingle
    => /\ last.outcome = "ok"
       /\ findMatch(matches, last.matchId).result.winnerId = lastOccupant
       /\ findMatch(matches, last.matchId).result.redScore = 0
       /\ findMatch(matches, last.matchId).result.whiteScore = 0
       /\ lastMatch.winnerToMatchId # Null
            => findMatch(matches, lastMatch.winnerToMatchId) =
                 findMatch(placePlayerInMatch(last.pre, lastMatch.winnerToMatchId, lastOccupant,
                                              lastMatch.winnerToSlot, {lastOccupant}),
                           lastMatch.winnerToMatchId)

\* a walkover of a White occupant whose Auto winner edge put it in a target
C7_Witness ==
  /\ lastWalkoverOnSingle /\ last.outcome = "ok"
  /\ lastMatch.redPlayerId = Null
  /\ lastMatch.winnerToMatchId # Null /\ lastMatch.winnerToSlot = Auto
  /\ findMatch(last.pre, lastMatch.winnerToMatchId).redPlayerId # Null
  /\ findMatch(matches, lastMatch.winnerToMatchId).whitePlayerId = lastMatch.whitePlayerId

\* C8: a walkover on a match whose two slots are empty is refused with the
\* no-player alert; every match (results and slots) and the persisted list
\* stay as they were.
C8_WalkoverEmpty ==
  (last.op = "walkover" /\ lastNamesMatch
     /\ lastMatch.redPlayerId = Null /\ lastMatch.whitePlayerId = Null)
    => /\ last.outcome = "noPlayer"
       /\ matches = last.pre
       /\ ~isFinished(findMatch(matches, last.matchId))
       /\ tournaments = last.preStore

C8_Witness ==
  /\ last.op = "walkover" /\ lastNamesMatch
  /\ lastMatch.redPlayerId = Null /\ lastMatch.whitePlayerId = Null
  /\ last.outcome = "noPlayer"

\* C9: every walkover that sets a result was applied to a match that had no
\* result and exactly one of its two slots occupied.
C9_WalkoverOnBye ==
  lastWalkoverDone
    => /\ ~isFinished(lastMatch)
       /\ (lastMatch.redPlayerId = Null) # (lastMatch.whitePlayerId = Null)

\* a walkover set a result while some other match had both slots occupied
C9_Witness ==
  /\ lastWalkoverDone
  /\ isFinished(findMatch(matches, last.matchId))
  /\ \E i \in DOMAIN last.pre : last.pre[i].redPlayerId # Null /\ last.pre[i].whitePlayerId # Null

\* C10: placePlayerInMatch with an explicit slot sets that slot of the target
\* to the player, whoever occupied it and whatever sourceParticipants is, and
\* leaves the other slot alone; applied again with the same arguments it
\* returns the collection unchanged.
C10_ExplicitPlace ==
  (last.op = "place" /\ last.place.slot \in Slots /\ lastNamesMatch)
    => /\ slotOf(findMatch(matches, last.matchId), last.place.slot) = last.place.playerId
       /\ \A sl \in Slots \ {last.place.slot} :
            slotOf(findMatch(matches, last.matchId), sl) = slotOf(lastMatch, sl)
       /\ calls = 2 => matches = last.pre

\* an explicit placement over another occupant that was in sourceParticipants,
\* applied twice
C10_Witness ==
  /\ last.op = "place" /\ calls = 2
  /\ last.place.slot = "white" /\ lastNamesMatch
  /\ last.place.src # {} /\ ~(last.place.playerId \in last.place.src)
  /\ findMatch(matches, last.matchId).redPlayerId \in last.place.src
  /\ findMatch(matches, last.matchId).whitePlayerId = last.place.playerId

\* C11 as stated: placePlayerInMatch applied twice with the same arguments
\* gives the collection of the first application, for every target, player,
\* slot selector (Auto included) and sourceParticipants.
C11_Original ==
  (last.op = "place" /\ calls = 2) => matches = last.pre

\* C11: placePlayerInMatch applied twice with the same arguments gives the
\* collection of the first application whenever the slot is explicit, or the
\* slot is Auto and the player is one of sourceParticipants (as the winner and
\* the loser are in every call submitScore and handleWalkover make).
C11_Idempotent ==
  (/\ last.op = "place" /\ calls = 2
   /\ (last.place.slot \in Slots \/ last.place.playerId \in last.place.src))
    => matches = last.pre

\* an Auto placement that filled the empty Red slot of an existing target with
\* a player of sourceParticipants, applied a second time
C11_Witness ==
  /\ last.op = "place" /\ calls = 2
  /\ last.place.slot = Auto /\ last.place.playerId \in last.place.src
  /\ lastNamesMatch
  /\ lastMatch.redPlayerId = last.place.playerId
  /\ lastMatch.whitePlayerId = Null
  /\ matches = last.pre

\* C19: placePlayerInMatch with Auto whose target holds a member of
\* sourceParticipants in Red overwrites Red and leaves White; otherwise, when
\* White holds one, it overwrites White and leaves Red. This comes before
\* filling an empty slot: an empty Red stays empty when White is corrected.
C19_AutoCorrection ==
  (last.op = "place" /\ last.place.slot = Auto /\ lastNamesMatch)
    => LET after == findMatch(matches, last.matchId) IN
       IF lastMatch.redPlayerId # Null /\ lastMatch.redPlayerId \in last.place.src
       THEN /\ after.redPlayerId = last.place.playerId
            /\ after.whitePlayerId = lastMatch.whitePlayerId
       ELSE (lastMatch.whitePlayerId # Null /\ lastMatch.whitePlayerId \in last.place.src)
              => /\ after.whitePlayerId = last.place.playerId
                 /\ after.redPlayerId = lastMatch.redPlayerId

\* an Auto placement into a target whose Red was empty and whose White held a
\* participant of the source: White was overwritten by another player, Red is
\* still empty
C19_Witness ==
  /\ last.op = "place" /\ last.place.slot = Auto /\ lastNamesMatch
  /\ calls = 1
  /\ lastMatch.redPlayerId = Null
  /\ lastMatch.whitePlayerId # Null /\ lastMatch.whitePlayerId \in last.place.src
  /\ lastMatch.whitePlayerId # last.place.playerId
  /\ findMatch(matches, last.matchId).whitePlayerId = last.place.playerId
  /\ findMatch(matches, last.matchId).redPlayerId = Null

\* the players a finished or unfinished match passes as sourceParticipants
occupants(m) == {m.redPlayerId, m.whitePlayerId} \ {Null}

\* edges that name match t as their target, as (source id, kind) pairs
edgesInto(ms, t) ==
  {<<ms[i].id, "winner">> : i \in {j \in DOMAIN ms : ms[j].winnerToMatchId = t}}
    \cup {<<ms[i].id, "loser">> : i \in {j \in DOMAIN ms : ms[j].loserToMatchId = t}}

\* C20: placePlayerInMatch with Auto whose target holds no member of
\* sourceParticipants puts the player in Red when Red is empty, else in White
\* when White is empty, and leaves the other slot. Consequently, when two
\* different matches have Auto winner edges to the same target, these are the
\* only edges into it, the target started empty (match 3 of every bracket of
\* Init) and both matches are finished in either order, the target holds the
\* two winners, one per slot.
C20_AutoFill ==
  /\ \A t \in DOMAIN matches, p \in PlayerIds, s \in DOMAIN matches :
       LET src == occupants(matches[s])
           before == matches[t]
           after == placePlayerInMatch(matches, before.id, p, Auto, src)[t]
       IN (before.redPlayerId \notin src /\ before.whitePlayerId \notin src)
            => IF before.redPlayerId = Null
               THEN after.redPlayerId = p /\ after.whitePlayerId = before.whitePlayerId
               ELSE before.whitePlayerId = Null
                      => after.whitePlayerId = p /\ after.redPlayerId = before.redPlayerId
  /\ \A a, b, t \in DOMAIN matches :
       (/\ a # b
        /\ matches[a].winnerToMatchId = matches[t].id /\ matches[a].winnerToSlot = Auto
        /\ matches[b].winnerToMatchId = matches[t].id /\ matches[b].winnerToSlot = Auto
        /\ edgesInto(matches, matches[t].id) = {<<matches[a].id, "winner">>, <<matches[b].id, "winner">>}
        /\ isFinished(matches[a]) /\ isFinished(matches[b]))
         => /\ {matches[t].redPlayerId, matches[t].whitePlayerId}
                 = {matches[a].result.winnerId, matches[b].result.winnerId}
            /\ matches[t].redPlayerId # matches[t].whitePlayerId

\* matches 1 and 2 both send their winner with Auto to match 3, match 2 was
\* finished first and its winner sits in Red, match 1 was finished by the
\* last call and its winner sits in White
C20_Witness ==
  /\ matches[1].winnerToMatchId = 3 /\ matches[1].winnerToSlot = Auto
  /\ matches[2].winnerToMatchId = 3 /\ matches[2].winnerToSlot = Auto
  /\ edgesInto(matches, 3) = {<<1, "winner">>, <<2, "winner">>}
  /\ last.op = "submitScore" /\ last.matchId = 1 /\ last.outcome = "ok"
  /\ isFinished(last.pre[2]) /\ last.pre[3].whitePlayerId = Null
  /\ matches[3].redPlayerId = matches[2].result.winnerId
  /\ matches[3].whitePlayerId = matches[1].result.winnerId

\* C18: a call that fails its validation changes nothing: submitScore or
\* handleWalkover naming a match id that does not exist, and submitScore on a
\* match with an empty slot, leave every result, every slot and the persisted
\* tournaments as they were before the call.
C18_FailedCallMutatesNothing ==
  (\/ last.op \in {"submitScore", "walkover"} /\ ~lastNamesMatch
   \/ /\ last.op = "submitScore" /\ lastNamesMatch
      /\ (lastMatch.redPlayerId = Null \/ lastMatch.whitePlayerId = Null))
    => /\ matches = last.pre
       /\ tournaments = last.preStore

\* a submission with a decisive score on a match whose White slot is empty,
\* made after an earlier call had written and persisted a result
C18_Witness ==
  /\ last.op = "submitScore" /\ lastNamesMatch /\ calls = 2
  /\ lastMatch.redPlayerId # Null /\ lastMatch.whitePlayerId = Null
  /\ last.form.red # last.form.white
  /\ \E i \in DOMAIN matches : isFinished(matches[i])
  /\ matches = last.pre /\ tournaments = last.preStore

\* the name the rankings show for player pid, Null for an id of no player
nameOf(pid) ==
  IF \E k \in DOMAIN editorData.players : editorData.players[k].id = pid
  THEN (CHOOSE p \in {editorData.players[k] : k \in DOMAIN editorData.players} : p.id = pid).name
  ELSE Null

ranked(title, pid, order) == [title |-> title, name |-> nameOf(pid), rankOrder |-> order]

\* matches a and b are the two semifinals of final f: f is the only match
\* without a winner edge, the winner edges of a and b and of no other match
\* name f, no loser edge names f, a and b hold four different players, and
\* every match is finished
finishedFourPlayerBracket(a, b, f) ==
  /\ a # b /\ f \notin {a, b}
  /\ \A i \in DOMAIN matches : matches[i].winnerToMatchId = Null <=> i = f
  /\ {i \in DOMAIN matches : matches[i].winnerToMatchId = matches[f].id} = {a, b}
  /\ \A i \in DOMAIN matches : matches[i].loserToMatchId # matches[f].id
  /\ Cardinality(occupants(matches[a]) \cup occupants(matches[b])) = 4
  /\ \A i \in DOMAIN matches : isFinished(matches[i])

\* the occupant of m who is not its recorded winner, Null when there is none
otherOccupant(m) ==
  IF occupants(m) \ {m.result.winnerId} = {} THEN Null
  ELSE CHOOSE p \in occupants(m) : p # m.result.winnerId

\* C12 as stated: for every finished bracket of 4 distinct players with one
\* main root fed by the winner edges of two semifinals and no consolation
\* root, the rankings page with limit 4 lists Champion, Runner-up and the two
\* semifinal losers as joint 3rd.
C12_Original ==
  \A a, b, f \in DOMAIN matches :
    (setupStep = 4 /\ rankingLimit = 4 /\ a < b /\ finishedFourPlayerBracket(a, b, f))
      => rankings = << ranked("Champion", matches[f].result.winnerId, 1),
                       ranked("2nd Place", otherOccupant(matches[f]), 2),
                       ranked("3rd Place - Joint", otherOccupant(matches[a]), 3),
                       ranked("3rd Place - Joint", otherOccupant(matches[b]), 3) >>

\* C12: for every finished bracket with one main root (the final) fed by the
\* winner edges of two semifinals and no consolation root, in which the two
\* semifinals hold four different players, the final holds the two semifinal
\* winners and every recorded winner still occupies its match, the rankings
\* page with limit 4 lists exactly Champion (the final's winner), 2nd Place
\* (the final's other occupant) and the two semifinal losers as joint 3rd, the
\* lower match id first.
C12_FourPlayerRanking ==
  \A a, b, f \in DOMAIN matches :
    (/\ setupStep = 4 /\ rankingLimit = 4 /\ a < b
     /\ finishedFourPlayerBracket(a, b, f)
     /\ {matches[f].redPlayerId, matches[f].whitePlayerId}
          = {matches[a].result.winnerId, matches[b].result.winnerId}
     /\ \A i \in {a, b, f} : matches[i].result.winnerId \in occupants(matches[i]))
      => rankings = << ranked("Champion", matches[f].result.winnerId, 1),
                       ranked("2nd Place", otherOccupant(matches[f]), 2),
                       ranked("3rd Place - Joint", otherOccupant(matches[a]), 3),
                       ranked("3rd Place - Joint", otherOccupant(matches[b]), 3) >>

\* the rankings page of a finished bracket whose semifinals 1 and 2 sent
\* their winners with Auto to the final 3, won by its White player
C12_Witness ==
  /\ setupStep = 4 /\ rankingLimit = 4
  /\ finishedFourPlayerBracket(1, 2, 3)
  /\ matches[1].winnerToSlot = Auto /\ matches[2].winnerToSlot = Auto
  /\ matches[3].result.winnerId = matches[3].whitePlayerId
  /\ Len(rankings) = 4
  /\ rankings[2].name = nameOf(matches[3].redPlayerId)

\* match i was finished with the given scores
scored(i, red, white) ==
  /\ isFinished(matches[i])
  /\ matches[i].result.redScore = red /\ matches[i].result.whiteScore = white

\* C13: in the scenario bracket, once match 1 has been scored 3-1 and match 2
\* 0-2, in either order, Red of match 3 is the Red player of match 1 and
\* White of match 3 is the White player of match 2; once match 3 has then
\* been scored 2-1, the rankings page with limit 4 lists, in this order,
\* Champion = Red of match 3, 2nd Place = White of match 3, joint 3rd = White
\* of match 1, joint 3rd = Red of match 2.
C13_Scenario ==
  (scored(1, 3, 1) /\ scored(2, 0, 2))
    => /\ matches[3].redPlayerId = matches[1].redPlayerId
       /\ matches[3].whitePlayerId = matches[2].whitePlayerId
       /\ (scored(3, 2, 1) /\ setupStep = 4 /\ rankingLimit = 4)
            => rankings = << ranked("Champion", matches[3].redPlayerId, 1),
                             ranked("2nd Place", matches[3].whitePlayerId, 2),
                             ranked("3rd Place - Joint", matches[1].whitePlayerId, 3),
                             ranked("3rd Place - Joint", matches[2].redPlayerId, 3) >>

\* the rankings page after the three submissions of the scenario
C13_Witness ==
  /\ scored(1, 3, 1) /\ scored(2, 0, 2) /\ scored(3, 2, 1)
  /\ last.op = "submitScore" /\ last.matchId = 3 /\ last.outcome = "ok"
  /\ setupStep = 4 /\ rankingLimit = 4
  /\ Len(rankings) = 4

\* the roots of the bracket, by index: main (no loser edge names them) and
\* consolation
rootIndexes == {i \in DOMAIN matches : matches[i].winnerToMatchId = Null}

consolationIndexes ==
  {i \in rootIndexes : \E j \in DOMAIN matches : matches[j].loserToMatchId = matches[i].id}

mainIndexes == rootIndexes \ consolationIndexes

\* matches whose winner edge names one of the matches of targets
feederIndexes(targets) ==
  {i \in DOMAIN matches : \E t \in targets : matches[i].winnerToMatchId = matches[t].id}

\* the players a set of finished matches puts forward: winners and derived
\* losers of roots, derived losers only of feeders
rootPlayers(S) ==
  UNION {{matches[i].result.winnerId, rankLoserId(matches[i])} : i \in {j \in S : isFinished(matches[j])}}

loserPlayers(S) == {rankLoserId(matches[i]) : i \in {j \in S : isFinished(matches[j])}}

\* the players getRankings considers in its k-th pass at the given limit:
\* 1 main roots, 2 consolation roots, 3 joint 3rd, 4 5th place, 5 9th place
passPlayers(k, limit) ==
  LET semis == feederIndexes(mainIndexes)
      qf == feederIndexes(semis)
  IN IF k = 1 THEN rootPlayers(mainIndexes)
     ELSE IF k = 2 THEN rootPlayers(consolationIndexes)
     ELSE IF k = 3 THEN (IF consolationIndexes = {} THEN loserPlayers(semis) ELSE {})
     ELSE IF k = 4 THEN (IF limit > 4 THEN loserPlayers(qf) ELSE {})
     ELSE (IF limit > 8 THEN loserPlayers(feederIndexes(qf)) ELSE {})

passOfTitle(title) ==
  IF title \in {"Champion", "2nd Place"} THEN 1
  ELSE IF title \in {"3rd Place", "4th Place"} THEN 2
  ELSE IF title = "3rd Place - Joint" THEN 3
  ELSE IF title = "5th Place" THEN 4
  ELSE 5

\* the passes in which the player named in a rankings entry is put forward
passesOf(name, limit) ==
  {k \in 1..5 : \E pid \in passPlayers(k, limit) : pid # Null /\ nameOf(pid) = name}

\* C14: the list the rankings page shows names no player twice, and each
\* listed player carries a title of the first pass that put them forward
\* (passes in the order main roots, consolation roots, joint 3rd, 5th, 9th),
\* for every state of the tournament and every limit.
C14_NoDuplicates ==
  setupStep = 4
    => /\ \A i, j \in DOMAIN rankings : rankings[i].name = rankings[j].name => i = j
       /\ \A i \in DOMAIN rankings :
            /\ passOfTitle(rankings[i].title) \in passesOf(rankings[i].name, rankingLimit)
            /\ \A k \in passesOf(rankings[i].name, rankingLimit) : passOfTitle(rankings[i].title) <= k

\* the rankings page lists, once, a player whom two different passes put
\* forward
C14_Witness ==
  /\ setupStep = 4
  /\ \E i \in DOMAIN rankings :
       /\ Cardinality(passesOf(rankings[i].name, rankingLimit)) > 1
       /\ \A j \in DOMAIN rankings : rankings[j].name = rankings[i].name => j = i

\* the place of a rankings entry in the accumulated list acc (entries differ
\* in their names)
placeIn(acc, entry) == CHOOSE k \in DOMAIN acc : acc[k] = entry

\* entry a comes before entry b in the sorted list: lower rankOrder, or the
\* same rankOrder and accumulated earlier
sortsBefore(acc, a, b) ==
  \/ a.rankOrder < b.rankOrder
  \/ a.rankOrder = b.rankOrder /\ placeIn(acc, a) < placeIn(acc, b)

\* C15: the list the rankings page shows is ordered by rankOrder ascending,
\* entries of equal rankOrder stand in the order they were accumulated, it
\* has at most limit entries, and it is the first limit entries of the sorted
\* accumulated list: every accumulated entry left out sorts behind every
\* entry shown. For every state of the tournament and every limit.
C15_SortedAndTruncated ==
  setupStep = 4
    => LET acc == accumulatedRankings(editorData, rankingLimit)
           shown == {rankings[i] : i \in DOMAIN rankings}
           all == {acc[k] : k \in DOMAIN acc}
       IN /\ Len(rankings) <= rankingLimit
          /\ Len(rankings) = (IF Len(acc) < rankingLimit THEN Len(acc) ELSE rankingLimit)
          /\ shown \subseteq all
          /\ \A i, j \in DOMAIN rankings : i < j => sortsBefore(acc, rankings[i], rankings[j])
          /\ \A e \in all \ shown : \A r \in shown : sortsBefore(acc, r, e)

\* the page shows two Champions of two main roots with limit 2: the sort moved
\* the second Champion ahead of the first root's 2nd Place, and the list was
\* cut
C15_Witness ==
  /\ setupStep = 4 /\ rankingLimit = 2
  /\ Len(accumulatedRankings(editorData, 2)) > 2
  /\ accumulatedRankings(editorData, 2)[2].rankOrder = 2
  /\ Len(rankings) = 2
  /\ rankings[1].rankOrder = 1 /\ rankings[2].rankOrder = 1

rendered == bracketTree # notRendered

depths == bracketTree.matchDepthMap

\* the edges of the bracket as pairs of match ids, source first
edges ==
  {<<matches[i].id, matches[i].winnerToMatchId>> : i \in {j \in DOMAIN matches : matches[j].winnerToMatchId # Null}}
    \cup {<<matches[i].id, matches[i].loserToMatchId>> : i \in {j \in DOMAIN matches : matches[j].loserToMatchId # Null}}

\* the ids from which the given ids are reached along edges, the given ids
\* included
RECURSIVE upstream(_)
upstream(ids) ==
  LET more == ids \cup {e[1] : e \in {x \in edges : x[2] \in ids}}
  IN IF more = ids THEN ids ELSE upstream(more)

groupIds(n) == {bracketTree.levels[n][k].id : k \in DOMAIN bracketTree.levels[n]}

C17_CycleReached ==
  /\ rendered /\ Len(matches) = NumMatches
  /\ \E e \in edges : e[2] \in upstream({e[1]}) /\ e[1] \in upstream({e[2]})
  /\ \E id \in DOMAIN depths : depths[id] = maxDepth

\* C21: placePlayerInMatch with Auto on a target whose two slots are both
\* occupied, neither by a member of sourceParticipants, returns the
\* collection unchanged: the player is not placed, no occupant is displaced.
C21_AutoNoOp ==
  (/\ last.op = "place" /\ last.place.slot = Auto /\ lastNamesMatch
   /\ lastMatch.redPlayerId # Null /\ lastMatch.whitePlayerId # Null
   /\ lastMatch.redPlayerId \notin last.place.src
   /\ lastMatch.whitePlayerId \notin last.place.src)
    => matches = last.pre

\* a first Auto placement of a player who is not in the full target, with a
\* non-empty sourceParticipants that misses both occupants
C21_Witness ==
  /\ last.op = "place" /\ last.place.slot = Auto /\ lastNamesMatch /\ calls = 1
  /\ lastMatch.redPlayerId # Null /\ lastMatch.whitePlayerId # Null
  /\ last.place.src # {}
  /\ lastMatch.redPlayerId \notin last.place.src
  /\ lastMatch.whitePlayerId \notin last.place.src
  /\ last.place.playerId \notin {lastMatch.redPlayerId, lastMatch.whitePlayerId}
  /\ matches = last.pre

\* C23: placePlayerInMatch returns every match other than the target as it
\* was and, in the target, changes at most one of the two slots and nothing
\* else (id, winner edge, loser edge and result stay); when targetMatchId
\* names no match the whole collection is returned as it was.
C23_PlaceFrame ==
  last.op = "place"
    => /\ DOMAIN matches = DOMAIN last.pre
       /\ \A i \in DOMAIN matches :
            IF last.pre[i].id # last.matchId
            THEN matches[i] = last.pre[i]
            ELSE /\ matches[i].id = last.pre[i].id
                 /\ matches[i].winnerToMatchId = last.pre[i].winnerToMatchId
                 /\ matches[i].winnerToSlot = last.pre[i].winnerToSlot
                 /\ matches[i].loserToMatchId = last.pre[i].loserToMatchId
                 /\ matches[i].loserToSlot = last.pre[i].loserToSlot
                 /\ matches[i].result = last.pre[i].result
                 /\ \/ matches[i].redPlayerId = last.pre[i].redPlayerId
                    \/ matches[i].whitePlayerId = last.pre[i].whitePlayerId
       /\ ~lastNamesMatch => matches = last.pre

\* a placement that changed one slot of a finished match with a winner edge
C23_Witness ==
  /\ last.op = "place" /\ lastNamesMatch /\ calls = 1
  /\ isFinished(lastMatch) /\ lastMatch.winnerToMatchId # Null
  /\ findMatch(matches, last.matchId).redPlayerId # lastMatch.redPlayerId
  /\ findMatch(matches, last.matchId).whitePlayerId = lastMatch.whitePlayerId
  /\ findMatch(matches, last.matchId).result = lastMatch.result

\* a placement whose targetMatchId names no match
C23_NoTarget ==
  /\ last.op = "place" /\ ~lastNamesMatch /\ last.matchId # Null /\ matches = last.pre

\* the last call was a successful score submission on a match that an
\* earlier score submission had finished with the other player as winner
lastResubmitOpposite ==
  /\ lastSubmitOnFull /\ last.outcome = "ok"
  /\ isFinished(lastMatch) /\ lastMatch.result.details # WalkoverDetails
  /\ lastMatch.result.winnerId = lastLoser

\* slot sl of match id held player old before the last call and holds player
\* new after it
corrected(id, sl, old, new) ==
  slotOf(findMatch(last.pre, id), sl) = old => slotOf(findMatch(matches, id), sl) = new

otherSlot(sl) == IF sl = "red" THEN "white" ELSE "red"

\* C22 as stated: after a second score submission on the same match with the
\* opposite outcome, for an Auto winner edge the slot of the target that held
\* the previous winner holds the new winner and the target's other slot is
\* unchanged; the slot of the loser target that held the previous loser
\* holds the new loser; neither target still holds a player this match
\* advanced before and does not advance there now.
C22_Original ==
  lastResubmitOpposite
    => /\ (lastMatch.winnerToMatchId # Null /\ lastMatch.winnerToSlot = Auto)
            => \A sl \in Slots :
                 slotOf(findMatch(last.pre, lastMatch.winnerToMatchId), sl) = lastLoser
                   => /\ slotOf(findMatch(matches, lastMatch.winnerToMatchId), sl) = lastWinner
                      /\ slotOf(findMatch(matches, lastMatch.winnerToMatchId), otherSlot(sl))
                           = slotOf(findMatch(last.pre, lastMatch.winnerToMatchId), otherSlot(sl))
       /\ lastMatch.loserToMatchId # Null
            => \A sl \in Slots : corrected(lastMatch.loserToMatchId, sl, lastWinner, lastLoser)

\* player old sat in one slot of match id before the last call (the slot an
\* explicit edge declares, either slot for Auto), the other slot holding no
\* player of the scored match; after the call that slot holds player new,
\* the other slot is as it was, and old is gone from the match
replaced(id, slot, old, new) ==
  \A sl \in (IF slot = Auto THEN Slots ELSE {slot}) :
    (/\ slotOf(findMatch(last.pre, id), sl) = old
     /\ slotOf(findMatch(last.pre, id), otherSlot(sl)) \notin {old, new})
      => /\ slotOf(findMatch(matches, id), sl) = new
         /\ slotOf(findMatch(matches, id), otherSlot(sl)) = slotOf(findMatch(last.pre, id), otherSlot(sl))
         /\ old \notin occupants(findMatch(matches, id))

\* C22: after a second score submission on the same match with the opposite
\* outcome, where the winner edge and the loser edge do not name the same
\* match: the slot of the winner target that held the previous winner (the
\* other slot holding neither player of the match) holds the new winner, the
\* other slot is unchanged and the previous winner is gone from the target;
\* likewise the loser target with the previous and the new loser. For an
\* explicit edge the slot is the declared one.
C22_Resubmission ==
  (lastResubmitOpposite /\ lastMatch.winnerToMatchId # lastMatch.loserToMatchId)
    => /\ lastMatch.winnerToMatchId # Null
            => replaced(lastMatch.winnerToMatchId, lastMatch.winnerToSlot, lastLoser, lastWinner)
       /\ lastMatch.loserToMatchId # Null
            => replaced(lastMatch.loserToMatchId, lastMatch.loserToSlot, lastWinner, lastLoser)

\* a re-submission that corrected both targets: the previous winner sat in
\* the winner target through an Auto edge and the previous loser in the
\* loser target through an Auto edge
C22_Witness ==
  /\ lastResubmitOpposite /\ calls = 2
  /\ lastMatch.winnerToMatchId # Null /\ lastMatch.loserToMatchId # Null
  /\ lastMatch.winnerToMatchId # lastMatch.loserToMatchId
  /\ lastMatch.winnerToSlot = Auto /\ lastMatch.loserToSlot = Auto
  /\ lastLoser \in occupants(findMatch(last.pre, lastMatch.winnerToMatchId))
  /\ lastWinner \in occupants(findMatch(last.pre, lastMatch.loserToMatchId))
  /\ lastWinner \in occupants(findMatch(matches, lastMatch.winnerToMatchId))
  /\ lastLoser \in occupants(findMatch(matches, lastMatch.loserToMatchId))

\* the rankings page shows the whole accumulated list
nothingCut == Len(accumulatedRankings(editorData, rankingLimit)) <= rankingLimit

\* the rankOrder values under which player pid is listed
ordersOf(pid) == {rankings[k].rankOrder : k \in {j \in DOMAIN rankings : rankings[j].name = nameOf(pid)}}

\* the titles under which player pid is listed
titlesOf(pid) == {rankings[k].title : k \in {j \in DOMAIN rankings : rankings[j].name = nameOf(pid)}}

finishedIn(S) == {i \in S : isFinished(matches[i])}

\* C24: on the rankings page (nothing cut by the limit), a finished root
\* that some loser edge names puts its winner and its other occupant at
\* ranks 3 and 4 unless a main root ranked them already, never at 1 or 2 by
\* itself; a finished root that no loser edge names puts its winner and its
\* other occupant at ranks 1 and 2; where there is one such root the winner
\* has the first and the other occupant the second of the two ranks. The
\* semifinals (winner edge to a main root) give their losers a joint 3rd
\* place only when no consolation root exists, and then every finished
\* semifinal does, unless the loser is ranked already. The other occupant is
\* the one getRankings derives from the winner's slot.
C24_Consolation ==
  (setupStep = 4 /\ nothingCut)
    => /\ \A i \in finishedIn(mainIndexes) :
            \A pid \in {matches[i].result.winnerId, rankLoserId(matches[i])} \ {Null} :
              ordersOf(pid) \in {{1}, {2}}
       /\ \A i \in finishedIn(mainIndexes) :
            (finishedIn(mainIndexes) = {i} /\ rankLoserId(matches[i]) # matches[i].result.winnerId)
              => /\ ordersOf(matches[i].result.winnerId) = {1}
                 /\ rankLoserId(matches[i]) # Null => ordersOf(rankLoserId(matches[i])) = {2}
       /\ \A i \in finishedIn(consolationIndexes) :
            \A pid \in {matches[i].result.winnerId, rankLoserId(matches[i])} \ {Null} :
              IF pid \in passPlayers(1, rankingLimit)
              THEN titlesOf(pid) \subseteq {"Champion", "2nd Place"}
              ELSE ordersOf(pid) \in {{3}, {4}} /\ titlesOf(pid) \subseteq {"3rd Place", "4th Place"}
       /\ \A i \in finishedIn(consolationIndexes) :
            (/\ finishedIn(consolationIndexes) = {i}
             /\ rankLoserId(matches[i]) # matches[i].result.winnerId
             /\ {matches[i].result.winnerId, rankLoserId(matches[i])} \cap passPlayers(1, rankingLimit) = {})
              => /\ ordersOf(matches[i].result.winnerId) = {3}
                 /\ rankLoserId(matches[i]) # Null => ordersOf(rankLoserId(matches[i])) = {4}
       /\ \A k \in DOMAIN rankings :
            /\ rankings[k].rankOrder \in {1, 2}
                 => \E pid \in rootPlayers(mainIndexes) : pid # Null /\ nameOf(pid) = rankings[k].name
            /\ rankings[k].title \in {"3rd Place", "4th Place"}
                 => \E pid \in rootPlayers(consolationIndexes) : pid # Null /\ nameOf(pid) = rankings[k].name
            /\ rankings[k].title = "3rd Place - Joint" => consolationIndexes = {}
       /\ consolationIndexes = {}
            => \A pid \in loserPlayers(feederIndexes(mainIndexes)) \ {Null} :
                 IF pid \in passPlayers(1, rankingLimit)
                 THEN titlesOf(pid) \subseteq {"Champion", "2nd Place"}
                 ELSE titlesOf(pid) = {"3rd Place - Joint"} /\ ordersOf(pid) = {3}

\* the rankings page of a bracket with a finished main root, a finished
\* consolation root and a finished semifinal whose loser has no joint 3rd
\* place
C24_Witness ==
  /\ setupStep = 4 /\ nothingCut
  /\ finishedIn(mainIndexes) # {} /\ finishedIn(consolationIndexes) # {}
  /\ \E i \in finishedIn(feederIndexes(mainIndexes)) : rankLoserId(matches[i]) # Null
  /\ \E k \in DOMAIN rankings : rankings[k].title = "3rd Place"
  /\ \E k \in DOMAIN rankings : rankings[k].title = "Champion"
  /\ \A k \in DOMAIN rankings : rankings[k].title # "3rd Place - Joint"


\* quarterfinals: matches whose winner edge names a semifinal; and the
\* matches whose winner edge names one of those
qfIndexes == feederIndexes(feederIndexes(mainIndexes))
r16Indexes == feederIndexes(qfIndexes)

\* the names listed under a rankOrder
namesRanked(order) == {rankings[k].name : k \in {j \in DOMAIN rankings : rankings[j].rankOrder = order}}

\* the players the passes before the 5th places put forward
beforeFifth == rootPlayers(mainIndexes) \cup rootPlayers(consolationIndexes)
                 \cup (IF consolationIndexes = {} THEN loserPlayers(feederIndexes(mainIndexes)) ELSE {})

\* C25: the rankings page lists a rankOrder 5 only at a limit above 4 and a
\* rankOrder 9 only at a limit above 8. At a limit above 4 (nothing cut) the
\* players listed 5th are exactly the losers of the finished quarterfinals
\* not ranked by an earlier pass, and at a limit above 8 the players listed
\* 9th are exactly the losers of the finished matches whose winner edge names
\* a quarterfinal, not ranked by an earlier pass.
C25_LimitGating ==
  setupStep = 4
    => /\ namesRanked(5) # {} => rankingLimit > 4
       /\ namesRanked(9) # {} => rankingLimit > 8
       /\ (rankingLimit > 4 /\ nothingCut)
            => namesRanked(5) = {nameOf(pid) : pid \in (loserPlayers(qfIndexes) \ {Null}) \ beforeFifth}
       /\ (rankingLimit > 8 /\ nothingCut)
            => namesRanked(9) =
                 {nameOf(pid) : pid \in (loserPlayers(r16Indexes) \ {Null}) \ (beforeFifth \cup loserPlayers(qfIndexes))}

\* the rankings page at a limit above 8 with a 5th and a 9th place listed
C25_Witness ==
  /\ setupStep = 4 /\ rankingLimit > 8 /\ nothingCut
  /\ namesRanked(5) # {} /\ namesRanked(9) # {}

\* the rankings page at limit 4 of a bracket with a finished quarterfinal
\* whose loser is not ranked
C25_GateWitness ==
  /\ setupStep = 4 /\ rankingLimit = 4
  /\ (loserPlayers(qfIndexes) \ {Null}) \ beforeFifth # {}
  /\ Len(rankings) < 4

\* no match leads back to itself along edges
acyclic == \A e \in edges : e[2] \notin upstream({e[1]})

\* the greatest number of edges on a path from match id to the root, for a
\* match that leads to the root in an acyclic graph
RECURSIVE longestFrom(_, _, _)
longestFrom(ids, n, best) ==
  IF ids = {} THEN best
  ELSE longestFrom({e[2] : e \in {x \in edges : x[1] \in ids /\ x[2] \in upstream({bracketTree.rootMatchId})}},
                   n + 1, IF bracketTree.rootMatchId \in ids THEN n ELSE best)

longestPath(id) == longestFrom({id}, 0, 0)

\* C26 as stated: for an acyclic graph, BracketTree gives rootMatchId depth 0
\* and every match that leads to the root along winner or loser edges the
\* length of its longest path to the root, when that length is within the
\* cap maxDepth.
C26_Original ==
  (rendered /\ acyclic)
    => /\ bracketTree.rootMatchId \in DOMAIN depths
       /\ depths[bracketTree.rootMatchId] = 0
       /\ \A id \in upstream({bracketTree.rootMatchId}) :
            longestPath(id) <= maxDepth => id \in DOMAIN depths /\ depths[id] = longestPath(id)

\* the indexes of the matches from which the root is not reached along edges
orphanIndexes == {i \in DOMAIN matches : matches[i].id \notin upstream({bracketTree.rootMatchId})}

\* the indexes of the matches that the edges of match i name
targetIndexes(i) ==
  {k \in DOMAIN matches : <<matches[i].id, matches[k].id>> \in edges}

\* C27 as stated: a match from which the root is not reached has the depth
\* of a match one of its edges names, or depth 0 when its edges name none.
C27_Original ==
  rendered
    => \A i \in orphanIndexes :
         /\ matches[i].id \in DOMAIN depths
         /\ IF targetIndexes(i) = {} THEN depths[matches[i].id] = 0
            ELSE \E k \in targetIndexes(i) :
                   matches[k].id \in DOMAIN depths /\ depths[matches[i].id] = depths[matches[k].id]

\* C27: a match from which the root is not reached has depth 0 when its
\* edges name no match. When they name matches, all with a depth below the
\* cap, the match has a depth and, for each such target, either lies deeper
\* than the target (exactly one deeper when it is the only target) or
\* stands at depth 0 together with a target that follows it in the
\* collection.
C27_OrphanDepth ==
  rendered
    => \A i \in orphanIndexes :
         IF targetIndexes(i) = {}
         THEN matches[i].id \in DOMAIN depths /\ depths[matches[i].id] = 0
         ELSE (\A k \in targetIndexes(i) : matches[k].id \in DOMAIN depths /\ depths[matches[k].id] < maxDepth)
                => /\ matches[i].id \in DOMAIN depths
                   /\ \A k \in targetIndexes(i) :
                        \/ /\ depths[matches[i].id] > depths[matches[k].id]
                           /\ targetIndexes(i) = {k} => depths[matches[i].id] = depths[matches[k].id] + 1
                        \/ /\ depths[matches[i].id] = 0 /\ depths[matches[k].id] = 0
                           /\ i < k

\* a rendered bracket in which match 1 sends its winner to match 3 and match
\* 3 to match 2, none leading to the root: match 1 was put at depth 0 first
\* and lies two deeper than match 2 in the end
C27_Witness ==
  /\ rendered /\ edges = {<<1, 3>>, <<3, 2>>}
  /\ orphanIndexes = {1, 2, 3}
  /\ depths[1] = 2 /\ depths[2] = 0 /\ depths[3] = 1

\* the greatest depth BracketTree assigned
deepest == CHOOSE d \in {depths[id] : id \in DOMAIN depths} : \A id \in DOMAIN depths : depths[id] <= d

\* the ids of the matches of the collection that were assigned depth d
idsAtDepth(d) == {matches[i].id : i \in {j \in DOMAIN matches : matches[j].id \in DOMAIN depths /\ depths[matches[j].id] = d}}

\* C28: the levels BracketTree returns are one group for each depth from the
\* greatest assigned depth down to 0, in that order, so the last group is
\* that of depth 0; a group holds exactly the matches of the collection
\* assigned its depth (possibly none), each once, in ascending order of id.
C28_Levels ==
  rendered
    => /\ Len(bracketTree.levels) = deepest + 1
       /\ \A n \in DOMAIN bracketTree.levels :
            LET group == bracketTree.levels[n]
            IN /\ groupIds(n) = idsAtDepth(deepest + 1 - n)
               /\ \A k \in DOMAIN group : \E i \in DOMAIN matches : group[k] = matches[i]
               /\ \A j, k \in DOMAIN group : j < k => group[j].id < group[k].id
       /\ groupIds(Len(bracketTree.levels)) = idsAtDepth(0)

\* a rendered bracket of two rounds: matches 1 and 2, in this order, form the
\* first group and the root, match 3, the last
C28_Witness ==
  /\ rendered /\ bracketTree.rootMatchId = 3 /\ edges = {<<1, 3>>, <<2, 3>>}
  /\ Len(bracketTree.levels) = 2
  /\ Len(bracketTree.levels[1]) = 2
  /\ bracketTree.levels[1][1].id = 1 /\ bracketTree.levels[1][2].id = 2
  /\ groupIds(2) = {3}

\* a rendered bracket with a group that holds no match
C28_EmptyGroup ==
  rendered /\ Len(matches) = NumMatches /\ \E n \in DOMAIN bracketTree.levels : bracketTree.levels[n] = <<>>

\* the edges that feed slot s of match id: pairs of the source match's index
\* and the kind of edge
edgesIntoSlot(id, s) ==
  {<<i, "winner">> : i \in {j \in DOMAIN matches : matches[j].winnerToMatchId = id /\ matches[j].winnerToSlot \in {s, Auto}}}
    \cup {<<i, "loser">> : i \in {j \in DOMAIN matches : matches[j].loserToMatchId = id /\ matches[j].loserToSlot \in {s, Auto}}}

\* C29: for every match and slot, getSlotSource lists exactly one entry for
\* each winner or loser edge that names the match with that slot or with
\* Auto, and getIncomingSources counts that many for the slot.
C29_SlotSources ==
  \A i \in DOMAIN matches : \A s \in Slots :
    LET sources == getSlotSource(matches, matches[i].id, s)
    IN /\ {<<k, t>> \in (DOMAIN matches) \X {"winner", "loser"} :
             \E n \in DOMAIN sources : sources[n] = [match |-> matches[k], type |-> t]}
            = edgesIntoSlot(matches[i].id, s)
       /\ Len(sources) = Cardinality(edgesIntoSlot(matches[i].id, s))
       /\ getIncomingSources(matches, matches[i].id)[s] = Len(sources)

\* a match fed by an Auto edge and by an edge that names Red: two sources
\* for Red, one for White
C29_Witness ==
  \E i \in DOMAIN matches :
    /\ Len(getSlotSource(matches, matches[i].id, "red")) = 2
    /\ Len(getSlotSource(matches, matches[i].id, "white")) = 1
    /\ \E k \in DOMAIN matches : matches[k].winnerToMatchId = matches[i].id /\ matches[k].winnerToSlot = Auto
    /\ \E k \in DOMAIN matches :
         \/ matches[k].winnerToMatchId = matches[i].id /\ matches[k].winnerToSlot = "red"
         \/ matches[k].loserToMatchId = matches[i].id /\ matches[k].loserToSlot = "red"
    /\ getIncomingSources(matches, matches[i].id) = [red |-> 2, white |-> 1]

\* the number of winner and loser edges of ms that feed slot s of match id
feedCount(ms, id, s) ==
  Cardinality({j \in DOMAIN ms : ms[j].winnerToMatchId = id /\ ms[j].winnerToSlot \in {s, Auto}})
    + Cardinality({j \in DOMAIN ms : ms[j].loserToMatchId = id /\ ms[j].loserToSlot \in {s, Auto}})

\* slot s of m has no occupant and no feeder
emptyTerminal(ms, m, s) == slotOf(m, s) = Null /\ feedCount(ms, m.id, s) = 0

\* slot s of m has no occupant but at least one feeder
waiting(ms, m, s) == slotOf(m, s) = Null /\ feedCount(ms, m.id, s) > 0

\* m has no result, one slot without occupant and feeder, and an occupant
\* or a feeder on the other slot
walkoverEligible(ms, m) ==
  /\ m.result = NoResult
  /\ \E s \in Slots :
       /\ emptyTerminal(ms, m, s)
       /\ slotOf(m, otherSlot(s)) # Null \/ feedCount(ms, m.id, otherSlot(s)) > 0

\* C30: MatchCard's isBye holds for a match exactly when the match has no
\* result, one slot has neither occupant nor feeder and the other slot has an
\* occupant or a feeder; a slot that waits for a feeder never makes the match
\* eligible (an eligible match with a waiting slot has its other slot without
\* occupant and feeder), and the walkover button acts on eligible matches
\* only.
C30_ByeEligibility ==
  /\ \A i \in DOMAIN matches : isBye(matches, matches[i]) <=> walkoverEligible(matches, matches[i])
  /\ \A i \in DOMAIN matches : \A s \in Slots :
       (isBye(matches, matches[i]) /\ waiting(matches, matches[i], s))
         => emptyTerminal(matches, matches[i], otherSlot(s))
  /\ last.op = "walkover" => lastNamesMatch /\ walkoverEligible(last.pre, lastMatch)

\* the walkover button was pressed on a match with a Red occupant and a
\* White slot without feeder, while another match with one occupant and a
\* slot waiting for a feeder offers no walkover
C30_Witness ==
  /\ lastWalkoverDone
  /\ lastMatch.redPlayerId # Null /\ emptyTerminal(last.pre, lastMatch, "white")
  /\ \E i \in DOMAIN matches : \E s \in Slots :
       /\ matches[i].result = NoResult
       /\ waiting(matches, matches[i], s) /\ slotOf(matches[i], otherSlot(s)) # Null
       /\ ~isBye(matches, matches[i])

\* a match is eligible through a feeder alone: no occupant in either slot
C30_FeederOnly ==
  \E i \in DOMAIN matches :
    /\ isBye(matches, matches[i])
    /\ matches[i].redPlayerId = Null /\ matches[i].whitePlayerId = Null

\* C31 as stated: in every state reached by score submissions and walkovers
\* the winner of every finished match is one of the match's two occupants,
\* and no call changes a slot of a match that was finished before the call.
C31_Original ==
  /\ \A i \in DOMAIN matches :
       isFinished(matches[i]) => matches[i].result.winnerId \in occupants(matches[i])
  /\ \A i \in DOMAIN matches :
       (last.op \in {"submitScore", "walkover"} /\ i \in DOMAIN last.pre
        /\ isFinished(last.pre[i]) /\ last.pre[i].id # last.matchId)
         => /\ matches[i].redPlayerId = last.pre[i].redPlayerId
            /\ matches[i].whitePlayerId = last.pre[i].whitePlayerId

explicitWinnerFed(ms, id, s) ==
  \E j \in DOMAIN ms : ms[j].winnerToMatchId = id /\ ms[j].winnerToSlot = s

\* every slot is occupied, or the target of an edge (by name or through
\* Auto), or without occupant and feeder opposite a slot that is occupied or
\* fed
everySlotServed(ms) ==
  \A i \in DOMAIN ms : \A s \in Slots :
    \/ slotOf(ms[i], s) # Null
    \/ feedCount(ms, ms[i].id, s) > 0
    \/ /\ emptyTerminal(ms, ms[i], s)
       /\ slotOf(ms[i], otherSlot(s)) # Null \/ feedCount(ms, ms[i].id, otherSlot(s)) > 0

\* every slot is occupied, or named by a winner edge, or without occupant
\* and feeder opposite a slot that is occupied or named by a winner edge
everySlotWinnerFed(ms) ==
  \A i \in DOMAIN ms : \A s \in Slots :
    \/ slotOf(ms[i], s) # Null
    \/ explicitWinnerFed(ms, ms[i].id, s)
    \/ /\ emptyTerminal(ms, ms[i], s)
       /\ slotOf(ms[i], otherSlot(s)) # Null \/ explicitWinnerFed(ms, ms[i].id, otherSlot(s))

\* while a match is unfinished, some unfinished match is ready or offers a
\* walkover with a player present
canProceed ==
  (\E i \in DOMAIN matches : ~isFinished(matches[i]))
    => \E i \in DOMAIN matches :
         /\ ~isFinished(matches[i])
         /\ \/ isReady(matches[i])
            \/ isBye(matches, matches[i]) /\ occupants(matches[i]) # {}

\* C33 as stated: on an acyclic bracket in which every slot is occupied,
\* the target of an edge, or empty without feeder opposite a slot that gets
\* a player, play can always proceed while a match is unfinished and, with
\* the operations scheduled fairly, every match is finished in the end.
C33_Original ==
  (acyclic /\ everySlotServed(matches)) => ([]canProceed /\ <>isComplete(editorData))

\* C33: on an acyclic bracket in which every slot is occupied, named by a
\* winner edge, or empty without feeder opposite a slot that is occupied or
\* named by a winner edge, play can always proceed while a match is
\* unfinished and, with the operations scheduled fairly, every match is
\* finished in the end.
C33_Progress ==
  (acyclic /\ everySlotWinnerFed(matches)) => ([]canProceed /\ <>isComplete(editorData))

\* play has ended on a bracket that met the condition from the start (every
\* occupied slot is either fed by nobody, so seeded, or named by a winner
\* edge): match 3 got its Red player from a winner edge and was finished by
\* walkover, another match was finished by a score
C33_Witness ==
  /\ isComplete(editorData) /\ acyclic /\ everySlotWinnerFed(matches)
  /\ \A i \in DOMAIN matches : \A s \in Slots :
       \/ slotOf(matches[i], s) # Null /\ feedCount(matches, matches[i].id, s) = 0
       \/ explicitWinnerFed(matches, matches[i].id, s)
       \/ emptyTerminal(matches, matches[i], s)
  /\ matches[3].redPlayerId # Null /\ explicitWinnerFed(matches, 3, "red")
  /\ matches[3].result.details = WalkoverDetails
  /\ \E i \in DOMAIN matches : isFinished(matches[i]) /\ matches[i].result.details # WalkoverDetails

\* C34: for every match of every reachable state, at most one of isReady,
\* isBye and isFinished holds, so the card shows at most one of the score
\* button, the walkover button and the result; a score is submitted only
\* for a match that was ready and a walkover taken only for a match that
\* was a bye, neither for a finished match.
C34_Exclusive ==
  /\ \A i \in DOMAIN matches :
       /\ ~(isReady(matches[i]) /\ isBye(matches, matches[i]))
       /\ ~(isReady(matches[i]) /\ isFinished(matches[i]))
       /\ ~(isBye(matches, matches[i]) /\ isFinished(matches[i]))
  /\ (last.op = "submitScore" /\ last.outcome = "ok")
       => lastNamesMatch /\ isReady(lastMatch) /\ ~isBye(last.pre, lastMatch) /\ ~isFinished(lastMatch)
  /\ last.op = "walkover"
       => lastNamesMatch /\ isBye(last.pre, lastMatch) /\ ~isReady(lastMatch) /\ ~isFinished(lastMatch)

\* after a walkover, one match is ready, another offers a walkover and a
\* third is finished
C34_Witness ==
  /\ lastWalkoverDone
  /\ \E i, j, k \in DOMAIN matches :
       /\ isReady(matches[i]) /\ isBye(matches, matches[j]) /\ isFinished(matches[k])
       /\ i # j /\ j # k /\ i # k

\* the number of groups of the levels in which match id stands, counted
\* with repetition inside a group
placesOf(id) ==
  Cardinality({p \in {<<n, k>> : n \in DOMAIN bracketTree.levels, k \in 1..Len(matches)} :
                 p[2] \in DOMAIN bracketTree.levels[p[1]] /\ bracketTree.levels[p[1]][p[2]].id = id})

\* the greatest number of edges on a path that starts at match id, in an
\* acyclic graph
RECURSIVE pathFrom(_, _)
pathFrom(ids, n) ==
  LET next == {e[2] : e \in {x \in edges : x[1] \in ids}}
  IN IF next = {} THEN n ELSE pathFrom(next, n + 1)

pathLength(id) == pathFrom({id}, 0)

\* C35 as stated: every match stands in at most one group, and in exactly
\* one when the graph is acyclic and every match that leads to the root is
\* at most maxDepth edges from it (a match that does not lead to the root is
\* one edge from the match its edge names).
C35_Original ==
  rendered
    => /\ \A i \in DOMAIN matches : placesOf(matches[i].id) <= 1
       /\ (acyclic /\ \A id \in upstream({bracketTree.rootMatchId}) : longestPath(id) <= maxDepth)
            => \A i \in DOMAIN matches : placesOf(matches[i].id) = 1

\* C35: BracketTree puts every match in at most one group, whatever the
\* graph and the root, and in exactly one group when the graph is acyclic
\* and no path along its edges is longer than maxDepth edges.
C35_OneGroup ==
  rendered
    => /\ \A i \in DOMAIN matches : placesOf(matches[i].id) <= 1
       /\ (acyclic /\ \A i \in DOMAIN matches : pathLength(matches[i].id) <= maxDepth)
            => \A i \in DOMAIN matches : placesOf(matches[i].id) = 1

\* an acyclic bracket of three rounds rendered from its last match: every
\* match stands in one group
C35_Witness ==
  /\ rendered /\ acyclic /\ Len(matches) = NumMatches
  /\ bracketTree.rootMatchId = 3 /\ edges = {<<1, 2>>, <<2, 3>>}
  /\ Len(bracketTree.levels) = 3
  /\ \A i \in DOMAIN matches : placesOf(matches[i].id) = 1

\* an acyclic chain rendered from its last match: the match more than
\* maxDepth edges from the root stands in no group
C35_NoGroup ==
  /\ rendered /\ acyclic
  /\ \E i \in DOMAIN matches : placesOf(matches[i].id) = 0 /\ pathLength(matches[i].id) > maxDepth

\* --- C36: what a successful submitScore leaves alone
\* the ids of the matches the edges of match id name
edgeTargets(ms, id) ==
  {findMatch(ms, id).winnerToMatchId, findMatch(ms, id).loserToMatchId} \ {Null}

\* the stored snapshots with the id of the edited tournament
stored(ts, id) == {i \in DOMAIN ts : ts[i].id = id}

\* C36: a successful submitScore on match m changes only m's result and the
\* Red/White slots of the matches m's winner edge and loser edge name: m's
\* slots and edges, every other match, all edges, and the tournament's
\* players, title, id, totalMatches and status stay; the store then holds
\* exactly one snapshot with the tournament's id, the new tournament, and its
\* other snapshots are unchanged
C36_Frame ==
  [][(last'.op = "submitScore" /\ last'.outcome = "ok") =>
       LET m == last'.matchId
           targets == edgeTargets(matches, m)
       IN /\ editorData' = [editorData EXCEPT !.matches = matches']
          /\ DOMAIN matches' = DOMAIN matches
          /\ \A i \in DOMAIN matches :
               /\ matches'[i].id = matches[i].id
               /\ matches'[i].winnerToMatchId = matches[i].winnerToMatchId
               /\ matches'[i].winnerToSlot = matches[i].winnerToSlot
               /\ matches'[i].loserToMatchId = matches[i].loserToMatchId
               /\ matches'[i].loserToSlot = matches[i].loserToSlot
               /\ matches[i].id # m => matches'[i].result = matches[i].result
               /\ matches[i].id \notin targets =>
                    /\ matches'[i].redPlayerId = matches[i].redPlayerId
                    /\ matches'[i].whitePlayerId = matches[i].whitePlayerId
               /\ matches[i].id \notin targets \cup {m} => matches'[i] = matches[i]
          /\ m \notin targets
          /\ Cardinality(stored(tournaments', editorData'.id)) = 1
          /\ \A i \in stored(tournaments', editorData'.id) : tournaments'[i] = editorData'
          /\ DOMAIN tournaments' = DOMAIN tournaments
          /\ \A i \in DOMAIN tournaments :
               tournaments[i].id # editorData.id => tournaments'[i] = tournaments[i]]_vars

\* a second submission on match 1, which has both edges, has reversed the
\* result: match 1 keeps its slots, both targets hold the players the other
\* way round and the other tournament is stored as it was
C36_Witness ==
  /\ last.op = "submitScore" /\ last.outcome = "ok" /\ last.matchId = 1
  /\ isFinished(last.pre[1]) /\ matches[1].result.winnerId # last.pre[1].result.winnerId
  /\ Cardinality(edgeTargets(matches, 1)) = 2
  /\ \A i \in DOMAIN matches : matches[i].id \in edgeTargets(matches, 1) => matches[i] # last.pre[i]
  /\ matches[1].redPlayerId = last.pre[1].redPlayerId
  /\ matches[1].whitePlayerId = last.pre[1].whitePlayerId
  /\ Cardinality(stored(tournaments, editorData.id)) = 1
  /\ \E i \in DOMAIN tournaments : tournaments[i] = OtherTournament

====
